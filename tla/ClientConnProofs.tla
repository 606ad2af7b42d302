-------------------------- MODULE ClientConnProofs --------------------------
(***************************************************************************)
(* The editor's connection for any requests, sockets and retry timers: one *)
(* open socket, every request called back at most once, and nothing        *)
(* pending that no message will ever mention.                              *)
(***************************************************************************)
EXTENDS ClientConn, FiniteSetTheorems, TLAPS

-----------------------------------------------------------------------------
(* The inductive invariant.                                                *)

\* A request waits, is pending, was called back, or was not made: one of them.
Once ==
    /\ pending \cap waiters = {}
    /\ pending \cap Requests \subseteq asked
    /\ \A r \in Requests :
           /\ calls[r] \in {0, 1}
           /\ calls[r] = 1 => r \in asked /\ r \notin pending \cup waiters

\* A socket whose other end was closed before its connect was handled has the
\* end of its stream in store.
GoodEnds == \A p \in Links :
    link[p] = "good" /\ p \notin served => Has(inbox[p], Eof)

\* So has the pipe, or the end of some stream is to be handled.
PipeEnds ==
    pipe # None /\ pipe \notin served => Has(inbox[pipe], Eof) \/ Has(sched, Eof)

Calling == RequestTypes /\ Once
Sockets == SocketTypes /\ NoOrphan /\ GoodEnds
Alive == PipeEnds /\ PendingAlive

IInv == Calling /\ Sockets /\ LoopTypes /\ Alive

-----------------------------------------------------------------------------
(* Messages, sockets and counts.                                           *)

LEMMA HasAppend ==
    ASSUME NEW S, NEW msgs \in Seq(S), NEW m \in S, NEW e
    PROVE  /\ Append(msgs, m) \in Seq(S)
           /\ Has(Append(msgs, m), e) <=> Has(msgs, e) \/ m = e
<1>1. /\ Len(msgs) \in Nat /\ Len(Append(msgs, m)) = Len(msgs) + 1
      /\ \A i \in 1..Len(msgs) : Append(msgs, m)[i] = msgs[i]
      /\ Append(msgs, m)[Len(msgs) + 1] = m
  OBVIOUS
<1> QED BY <1>1 DEF Has

LEMMA HasTail ==
    ASSUME NEW S, NEW msgs \in Seq(S), msgs # <<>>, NEW e
    PROVE  /\ Head(msgs) \in S /\ Tail(msgs) \in Seq(S)
           /\ Has(msgs, e) <=> Head(msgs) = e \/ Has(Tail(msgs), e)
<1>1. /\ Len(msgs) \in Nat /\ Len(msgs) > 0
      /\ Head(msgs) = msgs[1] /\ Len(Tail(msgs)) = Len(msgs) - 1
      /\ \A i \in 1..(Len(msgs) - 1) : Tail(msgs)[i] = msgs[i + 1]
  OBVIOUS
<1>2. ASSUME NEW i \in 1..Len(msgs), i # 1
      PROVE  i - 1 \in 1..Len(Tail(msgs)) /\ Tail(msgs)[i - 1] = msgs[i]
  BY <1>1, <1>2
<1>3. ASSUME NEW i \in 1..Len(Tail(msgs))
      PROVE  i + 1 \in 1..Len(msgs) /\ Tail(msgs)[i] = msgs[i + 1]
  BY <1>1
<1>4. Head(msgs) \in S /\ Tail(msgs) \in Seq(S)
  OBVIOUS
<1>5. ASSUME Has(msgs, e) PROVE Head(msgs) = e \/ Has(Tail(msgs), e)
  BY <1>1, <1>2, <1>5 DEF Has
<1>6. ASSUME Head(msgs) = e \/ Has(Tail(msgs), e) PROVE Has(msgs, e)
  <2>1. CASE Head(msgs) = e
    <3>1. 1 \in 1..Len(msgs) /\ msgs[1] = e
      BY <1>1, <2>1
    <3> QED BY <3>1 DEF Has
  <2>2. CASE Has(Tail(msgs), e)
    BY <1>3, <2>2 DEF Has
  <2> QED BY <1>6, <2>1, <2>2
<1> QED BY <1>4, <1>5, <1>6

\* With room there is a spare socket.
LEMMA SpareFacts ==
    /\ Unused # {} => Spare \in Unused
    /\ sched \in Seq(Events) /\ Room => Unused # {}
<1>1. Unused # {} => Spare \in Unused
  BY DEF Spare
<1>2. ASSUME sched \in Seq(Events), Room, Unused = {} PROVE FALSE
  <2>1. Len(sched) \in Nat
    BY <1>2
  <2>2. IsFiniteSet(Ticks)
    <3>1. IsFiniteSet(1..Len(sched))
      BY <2>1, FS_Interval
    <3>2. Ticks \in SUBSET (1..Len(sched))
      BY DEF Ticks
    <3> QED BY <3>1, <3>2, FS_Subset
  <2>3. Cardinality(Ticks) \in Nat /\ Cardinality(Unused) = 0
    BY <1>2, <2>2, FS_CardinalityType, FS_EmptySet
  <2> QED BY <1>2, <2>3 DEF Room
<1> QED BY <1>1, <1>2

\* A request that is on one list at most is counted once, or not at all.
LEMMA ListCount ==
    ASSUME NEW lists, NEW n \in Nat, DOMAIN lists = 1..n, NEW r,
           \A i, j \in 1..n : r \in lists[i] /\ r \in lists[j] => i = j
    PROVE  LET k == Cardinality({i \in DOMAIN lists : r \in lists[i]})
           IN  /\ k \in {0, 1}
               /\ k = 1 <=> \E i \in 1..n : r \in lists[i]
<1> DEFINE on == {i \in DOMAIN lists : r \in lists[i]}
<1>1. CASE on = {}
  <2>1. Cardinality(on) = 0
    BY <1>1, FS_EmptySet
  <2>2. \A i \in 1..n : r \notin lists[i]
    BY <1>1
  <2> QED BY <2>1, <2>2
<1>2. CASE on # {}
  <2>1. PICK i \in 1..n : r \in lists[i]
    BY <1>2
  <2>2. on = {i}
    BY <2>1
  <2>3. Cardinality(on) = 1
    BY <2>2, FS_Singleton
  <2> QED BY <2>1, <2>3
<1> QED BY <1>1, <1>2

-----------------------------------------------------------------------------
(* What dialling, closing and a teardown leave.                            *)

LEMMA DialSockets ==
    ASSUME Sockets, NEW p \in Links, NEW who \in Timers \cup {First},
           Dial(p, who), UNCHANGED idSeq,
           \/ pipe' = None /\ pipe \in {p, None}
           \/ pipe' = pipe /\ pipe # p
    PROVE  /\ Sockets'
           /\ \A q \in Links \ {p} :
                  /\ out'[q] = out[q] /\ inbox'[q] = inbox[q]
                  /\ q \in served' <=> q \in served
<1> USE DEF Sockets, SocketTypes
<1>1. /\ link'[p] \in {"good", "bad"} /\ (link'[p] = "good" <=> p \in served')
      /\ \A q \in Links \ {p} : link'[q] = link[q] /\ inbox'[q] = inbox[q]
      /\ \A q \in Links \ {p} : q \in served' <=> q \in served
      /\ \A q \in Links \ {p} : out'[q] = out[q]
      /\ reading' = reading \ {p} /\ served' \subseteq Links
  BY DEF Dial
<1>2. /\ link' \in [Links -> {"free", "good", "bad", "up"}]
      /\ by' \in [Links -> Timers \cup {First}]
      /\ inbox' \in [Links -> Seq(Events)]
  BY DEF Dial
<1>3. out' \in [Links -> SUBSET Ids'] 
  BY DEF Dial, Ids
<1>4. NoOrphan'
  BY <1>1, ClientAssumption DEF NoOrphan
<1>5. GoodEnds'
  BY <1>1 DEF GoodEnds
<1> QED BY <1>1, <1>2, <1>3, <1>4, <1>5

LEMMA CloseSockets ==
    ASSUME Sockets, NEW p \in Links, Close(p), UNCHANGED idSeq,
           \/ pipe' = None /\ pipe \in {p, None}
           \/ pipe' = pipe /\ pipe # p
    PROVE  /\ Sockets'
           /\ \A q \in Links \ {p} :
                  /\ out'[q] = out[q] /\ inbox'[q] = inbox[q]
                  /\ q \in served' <=> q \in served
<1> USE DEF Sockets, SocketTypes
<1>1. /\ link'[p] = "free"
      /\ \A q \in Links \ {p} : link'[q] = link[q] /\ inbox'[q] = inbox[q]
      /\ \A q \in Links \ {p} : out'[q] = out[q]
      /\ reading' = reading \ {p} /\ served' = served \ {p}
  BY DEF Close
<1>2. /\ link' \in [Links -> {"free", "good", "bad", "up"}]
      /\ by' \in [Links -> Timers \cup {First}]
      /\ inbox' \in [Links -> Seq(Events)]
  BY DEF Close
<1>3. out' \in [Links -> SUBSET Ids']
  BY DEF Close, Ids
<1>4. NoOrphan'
  BY <1>1, ClientAssumption DEF NoOrphan
<1>5. GoodEnds'
  BY <1>1 DEF GoodEnds
<1> QED BY <1>1, <1>2, <1>3, <1>4, <1>5

\* A teardown closes the pipe, and a callback may dial on a fresh one.
LEMMA TeardownSockets ==
    ASSUME Sockets, pipe \in Links \cup {None}, sched \in Seq(Events), NEW own,
           Teardown(waiters, own)
    PROVE  Sockets' /\ pipe' = None
<1>1. pipe' = None /\ UNCHANGED idSeq
  BY DEF Teardown, Settle
<1>2. CASE Quiet(waiters)
  <2>1. CASE pipe = None
    BY <1>1, <1>2, <2>1
       DEF Quiet, dials, wires, Sockets, SocketTypes, NoOrphan, GoodEnds, Ids
  <2>2. CASE pipe # None
    BY <1>1, <1>2, <2>2, CloseSockets DEF Quiet
  <2> QED BY <2>1, <2>2
<1>3. CASE AsksAgain(waiters, own)
  <2> DEFINE p == IF pipe = None THEN Spare ELSE pipe
  <2>1. Dial(p, First) /\ (pipe # None \/ Room)
    BY <1>3 DEF AsksAgain
  <2>2. p \in Links /\ pipe \in {p, None}
    BY <2>1, SpareFacts DEF Unused
  <2> HIDE DEF p
  <2> QED BY <1>1, <2>1, <2>2, DialSockets
<1> QED BY <1>2, <1>3 DEF Teardown

\* Everybody on the lists was not called back before; now they are.
LEMMA CallBackFacts ==
    ASSUME Calling, NEW lists, NEW n \in Nat, DOMAIN lists = 1..n,
           CallBack(lists),
           \A r \in Requests, i, j \in 1..n :
               r \in lists[i] /\ r \in lists[j] => i = j,
           \A r \in Requests, i \in 1..n : r \in lists[i] =>
               r \in pending \cup waiters \/ r \notin asked
    PROVE  /\ calls' \in [Requests -> Nat]
           /\ \A r \in Requests :
                  /\ calls'[r] \in {0, 1}
                  /\ calls'[r] = 1 <=>
                         calls[r] = 1 \/ \E i \in 1..n : r \in lists[i]
<1> USE DEF Calling, RequestTypes, Once
<1>1. ASSUME NEW r \in Requests
      PROVE  /\ calls'[r] \in {0, 1}
             /\ calls'[r] = 1 <=> calls[r] = 1 \/ \E i \in 1..n : r \in lists[i]
  <2> DEFINE k == Cardinality({i \in DOMAIN lists : r \in lists[i]})
  <2>1. k \in {0, 1} /\ (k = 1 <=> \E i \in 1..n : r \in lists[i])
    BY <1>1, ListCount
  <2>2. calls'[r] = calls[r] + k
    BY <1>1 DEF CallBack
  <2> HIDE DEF k
  <2>3. k = 1 => calls[r] # 1
    BY <1>1, <2>1
  <2>4. calls[r] \in {0, 1}
    BY <1>1
  <2> QED BY <2>1, <2>2, <2>3, <2>4
<1>2. calls' \in [Requests -> Nat]
  <2>1. \A r \in Requests : calls'[r] \in Nat
    BY <1>1
  <2> QED BY <2>1 DEF CallBack
<1> QED BY <1>1, <1>2

\* A teardown ends every wait; a request made meanwhile waits, or has failed.
LEMMA TeardownCalling ==
    ASSUME Calling, NEW own, Teardown(waiters, own)
    PROVE  Calling' /\ pending' = {}
<1> USE DEF Calling, RequestTypes, Once
<1>1. /\ pipe' = None /\ UNCHANGED idSeq /\ ready' = FALSE /\ pending' = {}
  BY DEF Teardown, Settle
<1>2. CASE Quiet(waiters)
  <2> DEFINE lists == <<pending, waiters>>
  <2>1. /\ DOMAIN lists = 1..2 /\ lists[1] = pending /\ lists[2] = waiters
        /\ CallBack(lists)
    BY <1>2 DEF Quiet
  <2> HIDE DEF lists
  <2>2. \A i \in 1..2 : i = 1 \/ i = 2
    OBVIOUS
  <2>3. /\ calls' \in [Requests -> Nat]
        /\ \A r \in Requests :
               /\ calls'[r] \in {0, 1}
               /\ calls'[r] = 1 <=> calls[r] = 1 \/ r \in pending \cup waiters
    <3>1. /\ \A r \in Requests, i, j \in 1..2 :
                 r \in lists[i] /\ r \in lists[j] => i = j
          /\ \A r \in Requests, i \in 1..2 : r \in lists[i] =>
                 r \in pending \cup waiters \/ r \notin asked
          /\ \A r : (\E i \in 1..2 : r \in lists[i]) <=> r \in pending \cup waiters
      BY <2>1, <2>2
    <3>2. /\ calls' \in [Requests -> Nat]
          /\ \A r \in Requests :
                 /\ calls'[r] \in {0, 1}
                 /\ calls'[r] = 1 <=>
                        calls[r] = 1 \/ \E i \in 1..2 : r \in lists[i]
      BY <2>1, <3>1, CallBackFacts
    <3> QED BY <3>1, <3>2
  <2> QED BY <1>1, <1>2, <2>3 DEF Quiet, Ids
<1>3. CASE AsksAgain(waiters, own)
  <2>1. PICK r \in Requests \cap (pending \cup waiters) :
            LET f == Follow[r]
                hellos == pending \ (Requests \cup own)
                fails == r \in pending \/ (own = {} /\ hellos # {})
            IN  /\ f \notin asked \cup {None}
                /\ asked' = asked \cup {f}
                /\ waiters' = IF fails THEN {} ELSE {f}
                /\ CallBack(<<pending, waiters, IF fails THEN {f} ELSE {}>>)
                /\ connecting' \in CASE hellos = {} \/ ~fails -> {TRUE}
                                     [] r \in pending -> BOOLEAN
                                     [] OTHER -> {Cardinality(hellos) = 1}
    BY <1>3 DEF AsksAgain
  <2> DEFINE f == Follow[r]
             hellos == pending \ (Requests \cup own)
             fails == r \in pending \/ (own = {} /\ hellos # {})
             failed == IF fails THEN {f} ELSE {}
             lists == <<pending, waiters, failed>>
  <2>2. f \in Requests /\ f \notin asked
    BY <2>1, ClientAssumption
  <2>3. connecting' \in BOOLEAN /\ (~fails => connecting')
    BY <2>1
  <2>4. /\ DOMAIN lists = 1..3 /\ CallBack(lists)
        /\ lists[1] = pending /\ lists[2] = waiters /\ lists[3] = failed
    BY <2>1
  <2>5. /\ asked' = asked \cup {f} /\ failed \subseteq {f}
        /\ waiters' \subseteq {f} \ failed /\ (waiters' # {} => ~fails)
    BY <2>1
  <2> HIDE DEF lists, failed, fails, hellos, f
  <2>6. \A i \in 1..3 : i = 1 \/ i = 2 \/ i = 3
    OBVIOUS
  <2>7. /\ \A q \in Requests, i, j \in 1..3 :
               q \in lists[i] /\ q \in lists[j] => i = j
        /\ \A q \in Requests, i \in 1..3 : q \in lists[i] =>
               q \in pending \cup waiters \/ q \notin asked
        /\ \A q : (\E i \in 1..3 : q \in lists[i])
                      <=> q \in pending \cup waiters \cup failed
    BY <2>2, <2>4, <2>5, <2>6
  <2>8. /\ calls' \in [Requests -> Nat]
        /\ \A q \in Requests :
               /\ calls'[q] \in {0, 1}
               /\ calls'[q] = 1 <=>
                      calls[q] = 1 \/ \E i \in 1..3 : q \in lists[i]
    BY <2>4, <2>7, CallBackFacts
  <2>9. \A q \in Requests : calls'[q] = 1 =>
            q \in asked' /\ q \notin pending' \cup waiters'
    BY <1>1, <2>2, <2>5, <2>7, <2>8
  <2>10. /\ waiters' \subseteq asked' /\ asked' \subseteq Requests
         /\ waiters' # {} => connecting'
    BY <2>2, <2>3, <2>5
  <2> QED BY <1>1, <2>3, <2>8, <2>9, <2>10 DEF Ids
<1> QED BY <1>2, <1>3 DEF Teardown

-----------------------------------------------------------------------------
(* Requests, their lists and the calls back.                               *)

\* `teardown`, wherever it is called from.
TearsDown == \E own : Teardown(waiters, own)

\* Steps of timers, streams and the agent that leave the requests alone.
Elsewhere ==
    \/ \E p \in Links : ReadCb(p) \/ AgentAnswers(p)
    \/ \E k \in Timers : TimerFires(k)
    \/ OnFirstFailed \/ OnRetryFailed \/ OnTick
    \/ AgentStarts \/ AgentDefers \/ AgentServes \/ AgentUnlinks \/ AgentExits
    \/ UNCHANGED vars

\* Every step is one of these.
LEMMA StepKinds ==
    ASSUME [Next]_vars
    PROVE  \/ \E r \in Requests : Request(r) \/ RequestRefused(r)
           \/ \E p \in Links : ConnectCb(p)
           \/ OnConnected \/ OnAnswer \/ OnHello
           \/ TearsDown
           \/ Elsewhere
  BY DEF Next, MainLoop, Stop, OnNoBinary, OnRetriesOver, OnHelloFailed, OnEof,
         TearsDown, Elsewhere

LEMMA CallingStep ==
    ASSUME IInv, [Next]_vars
    PROVE  Calling'
<1> USE DEF IInv, Calling, RequestTypes, Once
<1>1. ASSUME NEW r \in Requests, Request(r) PROVE Calling'
  <2>1. r \notin asked /\ asked' = asked \cup {r} /\ UNCHANGED <<calls, idSeq>>
    BY <1>1 DEF Request
  <2>2. calls[r] = 0 /\ r \notin pending /\ r \notin waiters
    BY <2>1
  <2>3. CASE ready /\ pipe # None
    <3>1. /\ pending' = pending \cup {r}
          /\ UNCHANGED <<pipe, ready, connecting, waiters>>
      BY <1>1, <2>3 DEF Request
    <3> QED BY <2>1, <2>2, <3>1 DEF Ids
  <2>4. CASE ~(ready /\ pipe # None)
    <3>1. /\ waiters' = waiters \cup {r} /\ connecting' = TRUE
          /\ UNCHANGED <<pipe, ready, pending>>
      BY <1>1, <2>4 DEF Request
    <3> QED BY <2>1, <2>2, <3>1 DEF Ids
  <2> QED BY <2>3, <2>4
<1>2. ASSUME NEW r \in Requests, RequestRefused(r) PROVE Calling'
  <2>1. PICK fs \in SUBSET ({Follow[q] : q \in {r} \cup waiters
                                             \cup (pending \cap Requests)}
                               \ (asked \cup {None, r})) :
            /\ asked' = asked \cup {r} \cup fs
            /\ CallBack(<<pending, waiters, {r}, fs>>)
    BY <1>2 DEF RequestRefused
  <2>2. /\ r \notin asked /\ fs \subseteq Requests /\ r \notin fs
        /\ fs \cap asked = {}
    BY <1>2, <2>1, ClientAssumption DEF RequestRefused
  <2> DEFINE lists == <<pending, waiters, {r}, fs>>
  <2>3. /\ DOMAIN lists = 1..4 /\ CallBack(lists)
        /\ lists[1] = pending /\ lists[2] = waiters
        /\ lists[3] = {r} /\ lists[4] = fs
    BY <2>1
  <2> HIDE DEF lists
  <2>4. \A i \in 1..4 : i = 1 \/ i = 2 \/ i = 3 \/ i = 4
    OBVIOUS
  <2>5. /\ \A q \in Requests, i, j \in 1..4 :
               q \in lists[i] /\ q \in lists[j] => i = j
        /\ \A q \in Requests, i \in 1..4 : q \in lists[i] =>
               q \in pending \cup waiters \/ q \notin asked
        /\ \A q : (\E i \in 1..4 : q \in lists[i])
                      <=> q \in pending \cup waiters \cup {r} \cup fs
    BY <2>2, <2>3, <2>4
  <2>6. /\ calls' \in [Requests -> Nat]
        /\ \A q \in Requests :
               /\ calls'[q] \in {0, 1}
               /\ calls'[q] = 1 <=>
                      calls[q] = 1 \/ \E i \in 1..4 : q \in lists[i]
    BY <2>3, <2>5, CallBackFacts
  <2>7. /\ pending' = {} /\ waiters' = {} /\ pipe' = None /\ ready' = FALSE
        /\ connecting' = FALSE /\ UNCHANGED idSeq
    BY <1>2 DEF RequestRefused, Settle
  <2>8. asked' \subseteq Requests /\ \A q \in Requests : calls'[q] = 1 => q \in asked'
    BY <2>1, <2>2, <2>5, <2>6
  <2> QED BY <2>6, <2>7, <2>8 DEF Ids
<1>3. ASSUME NEW p \in Links, ConnectCb(p) PROVE Calling'
  BY <1>3, ClientAssumption DEF ConnectCb, tally, Ids
<1>4. CASE OnConnected
  <2>1. idSeq + 1 \in Nat /\ idSeq + 1 \notin Requests
    BY ClientAssumption
  <2>2. CASE pipe = None
    BY <1>4, <2>2 DEF OnConnected, flags, tally, Ids
  <2>3. CASE pipe # None
    BY <1>4, <2>1, <2>3 DEF OnConnected, tally, Ids
  <2> QED BY <2>2, <2>3
<1>5. CASE OnAnswer
  <2> DEFINE x == Head(sched).of
             lists == <<pending \cap {x}>>
  <2>1. /\ pending' = pending \ {x} /\ CallBack(lists)
        /\ UNCHANGED <<pipe, ready, connecting, waiters, idSeq, asked>>
    BY <1>5 DEF OnAnswer
  <2>2. DOMAIN lists = 1..1 /\ lists[1] = pending \cap {x}
    OBVIOUS
  <2> HIDE DEF lists, x
  <2>3. \A i \in 1..1 : i = 1
    OBVIOUS
  <2>4. /\ \A q \in Requests, i, j \in 1..1 :
               q \in lists[i] /\ q \in lists[j] => i = j
        /\ \A q \in Requests, i \in 1..1 : q \in lists[i] =>
               q \in pending \cup waiters \/ q \notin asked
        /\ \A q : (\E i \in 1..1 : q \in lists[i]) <=> q \in pending \cap {x}
    BY <2>2, <2>3
  <2>5. /\ calls' \in [Requests -> Nat]
        /\ \A q \in Requests :
               /\ calls'[q] \in {0, 1}
               /\ calls'[q] = 1 <=>
                      calls[q] = 1 \/ \E i \in 1..1 : q \in lists[i]
    BY <2>1, <2>2, <2>4, CallBackFacts
  <2> QED BY <2>1, <2>4, <2>5 DEF Ids
<1>6. CASE OnHello
  <2>1. pending # {} /\ pipe # None
    BY <1>6 DEF OnHello, Alive, PendingAlive
  <2> QED BY <1>6, <2>1 DEF OnHello, tally, Ids
<1>7. CASE TearsDown
  BY <1>7, TeardownCalling DEF TearsDown
<1>8. CASE Elsewhere
  <2>1. UNCHANGED <<flags, tally>>
    BY <1>8 DEF Elsewhere, ReadCb, AgentAnswers, TimerFires, OnFirstFailed,
                OnRetryFailed, OnTick, AgentStarts, AgentDefers, AgentServes,
                AgentUnlinks, AgentExits, vars
  <2> QED BY <2>1 DEF flags, tally, Ids
<1> QED BY <1>1, <1>2, <1>3, <1>4, <1>5, <1>6, <1>7, <1>8, StepKinds

-----------------------------------------------------------------------------
(* Sockets and the loop.                                                   *)

\* `send` gives the agent ids that were given out, on a pipe that is open.
LEMMA SendFacts ==
    ASSUME Sockets, NEW ids, Send(ids), ids \subseteq Ids', Ids \subseteq Ids'
    PROVE  /\ out' \in [Links -> SUBSET Ids']
           /\ \A p \in Links : out[p] \subseteq out'[p]
           /\ pipe \in served => ids \subseteq out'[pipe]
  BY DEF Sockets, SocketTypes, Send

LEMMA EofFacts ==
    /\ Eof \in Events
    /\ \A x \in Requests \cup Nat : Ev("reply", x) \in Events
    /\ \A k \in Timers \cup {First} :
           Ev("failed", k) \in Events /\ Ev("connected", k) \in Events
    /\ \A k \in Timers : Ev("tick", k) \in Events
    /\ \A e \in Events : /\ e.kind = "eof" => e = Eof
                         /\ e.kind = "reply" => e = Ev("reply", e.of)
                         /\ e.kind = "tick" => e.of \in Timers
  BY DEF Events, Eof, Ev

LEMMA SocketsStep ==
    ASSUME IInv, [Next]_vars
    PROVE  Sockets'
<1> USE DEF IInv
<1>1. ASSUME UNCHANGED <<pipe, idSeq>>, UNCHANGED <<dials, wires>>
      PROVE  Sockets'
  BY <1>1 DEF Sockets, SocketTypes, NoOrphan, GoodEnds, dials, wires, Ids
<1>2. ASSUME NEW ids, Send(ids), ids \subseteq Ids', Ids \subseteq Ids',
             UNCHANGED <<pipe, link, by, served, inbox>>,
             reading' \subseteq {p \in Links : link[p] = "up"}
      PROVE  Sockets'
  <2>1. out' \in [Links -> SUBSET Ids']
    BY <1>2, SendFacts
  <2> QED BY <1>2, <2>1 DEF Sockets, SocketTypes, NoOrphan, GoodEnds
<1>3. ASSUME NEW r \in Requests, Request(r) PROVE Sockets'
  <2>1. UNCHANGED <<pipe, idSeq>> /\ Ids' = Ids
    BY <1>3 DEF Request, Ids
  <2>2. CASE ready /\ pipe # None
    <3>1. Send({r}) /\ UNCHANGED <<pipe, dials, served, inbox>>
      BY <1>3, <2>2 DEF Request
    <3>2. {r} \subseteq Ids'
      BY DEF Ids
    <3> QED BY <1>2, <2>1, <3>1, <3>2 DEF dials, Sockets, SocketTypes
  <2>3. CASE ~(ready /\ pipe # None) /\ connecting
    BY <1>1, <1>3, <2>1, <2>3 DEF Request
  <2>4. CASE ~(ready /\ pipe # None) /\ ~connecting
    <3>1. Dial(Spare, First) /\ Room
      BY <1>3, <2>4 DEF Request
    <3>2. Spare \in Links /\ pipe # Spare
      BY <3>1, SpareFacts
         DEF LoopTypes, Unused, Sockets, NoOrphan
    <3> QED BY <2>1, <3>1, <3>2, DialSockets
  <2> QED BY <2>2, <2>3, <2>4
<1>4. ASSUME NEW r \in Requests, RequestRefused(r) PROVE Sockets'
  <2>1. /\ pipe' = None /\ UNCHANGED idSeq
        /\ IF pipe = None THEN UNCHANGED <<dials, wires>> ELSE Close(pipe)
    BY <1>4 DEF RequestRefused, Settle
  <2>2. CASE pipe = None
    BY <1>1, <2>1, <2>2
  <2>3. CASE pipe # None
    BY <2>1, <2>3, CloseSockets DEF Calling, RequestTypes
  <2> QED BY <2>2, <2>3
<1>5. ASSUME NEW p \in Links, ConnectCb(p) PROVE Sockets'
  <2>1. pipe # p
    BY <1>5 DEF ConnectCb, Sockets, NoOrphan
  <2>2. CASE link[p] = "bad" \/ pipe # None
    BY <1>5, <2>1, <2>2, CloseSockets DEF ConnectCb
  <2>3. CASE link[p] = "good" /\ pipe = None
    <3>1. /\ pipe' = p /\ link' = [link EXCEPT ![p] = "up"]
          /\ UNCHANGED <<by, reading, served, out, inbox, idSeq>>
      BY <1>5, <2>3 DEF ConnectCb, wires
    <3> QED BY <2>3, <3>1, ClientAssumption
          DEF Sockets, SocketTypes, NoOrphan, GoodEnds, Ids
  <2> QED BY <1>5, <2>2, <2>3 DEF ConnectCb
<1>6. CASE OnConnected
  <2>1. CASE pipe = None
    BY <1>1, <1>6, <2>1 DEF OnConnected, flags
  <2>2. CASE pipe # None
    <3>1. /\ Send({idSeq + 1}) /\ idSeq' = idSeq + 1
          /\ reading' = reading \cup {pipe}
          /\ UNCHANGED <<pipe, link, by, served, inbox>>
      BY <1>6, <2>2 DEF OnConnected
    <3>2. {idSeq + 1} \subseteq Ids' /\ Ids \subseteq Ids'
      BY <3>1 DEF Ids, Calling, RequestTypes
    <3>3. reading' \subseteq {p \in Links : link[p] = "up"}
      BY <2>2, <3>1 DEF Calling, RequestTypes, Sockets, SocketTypes, NoOrphan
    <3> QED BY <1>2, <3>1, <3>2, <3>3
  <2> QED BY <2>1, <2>2
<1>7. CASE OnHello
  <2>1. Send(waiters) /\ UNCHANGED <<pipe, idSeq, dials, served, inbox>>
    BY <1>7 DEF OnHello
  <2>2. waiters \subseteq Ids' /\ Ids' = Ids
    BY <2>1 DEF Ids, Calling, RequestTypes
  <2> QED BY <1>2, <2>1, <2>2 DEF dials, Sockets, SocketTypes
<1>8. CASE OnAnswer
  BY <1>1, <1>8 DEF OnAnswer
<1>9. CASE TearsDown
  BY <1>9, TeardownSockets DEF TearsDown, Calling, RequestTypes, LoopTypes
<1>10. CASE Elsewhere
  <2>1. ASSUME NEW p \in Links, ReadCb(p) PROVE Sockets'
    <3>1. /\ p \in reading /\ inbox[p] # <<>>
          /\ inbox' = [inbox EXCEPT ![p] = Tail(@)]
          /\ UNCHANGED <<pipe, idSeq, link, by, reading, served, out>>
      BY <2>1 DEF ReadCb, flags, dials
    <3>2. inbox[p] \in Seq(Events) /\ link[p] = "up"
      BY <3>1 DEF Sockets, SocketTypes
    <3>3. Tail(inbox[p]) \in Seq(Events)
      BY <3>1, <3>2, HasTail
    <3> QED BY <3>1, <3>2, <3>3
          DEF Sockets, SocketTypes, NoOrphan, GoodEnds, Ids
  <2>2. ASSUME NEW p \in Links, AgentAnswers(p) PROVE Sockets'
    <3>1. PICK x \in out[p] :
              /\ p \in served
              /\ out' = [out EXCEPT ![p] = @ \ {x}]
              /\ inbox' = [inbox EXCEPT ![p] = Append(@, Ev("reply", x))]
              /\ UNCHANGED <<pipe, idSeq, link, by, reading, served>>
      BY <2>2 DEF AgentAnswers, flags, dials
    <3>2. x \in Requests \cup Nat
      BY <3>1 DEF Sockets, SocketTypes, Ids
    <3>3. inbox[p] \in Seq(Events) /\ Append(inbox[p], Ev("reply", x)) \in Seq(Events)
      BY <3>2, EofFacts, HasAppend DEF Sockets, SocketTypes
    <3> QED BY <3>1, <3>3 DEF Sockets, SocketTypes, NoOrphan, GoodEnds, Ids
  <2>3. CASE OnTick
    <3>1. UNCHANGED <<pipe, idSeq>> /\ sched # <<>> /\ Head(sched).kind = "tick"
      BY <2>3 DEF OnTick, Runs, Head_, flags
    <3>2. Head(sched).of \in Timers
      BY <3>1, HasTail, EofFacts DEF LoopTypes
    <3>3. CASE pipe = None
      <4>1. Unused # {} /\ Dial(Spare, Head(sched).of)
        BY <2>3, <3>3 DEF OnTick
      <4>2. Spare \in Links
        BY <4>1, SpareFacts DEF Unused
      <4> QED BY <3>1, <3>2, <3>3, <4>1, <4>2, DialSockets
    <3>4. CASE pipe # None
      BY <1>1, <2>3, <3>1, <3>4 DEF OnTick
    <3> QED BY <3>3, <3>4
  <2>4. CASE AgentExits
    <3>1. /\ out' = [p \in Links |-> {}] /\ served' = {}
          /\ UNCHANGED <<pipe, idSeq, link, by, reading>>
      BY <2>4 DEF AgentExits, flags, dials
    <3>2. \A p \in Links : inbox[p] \in Seq(Events)
      BY DEF Sockets, SocketTypes
    <3>3. \A p \in Links : /\ inbox'[p] \in Seq(Events)
                           /\ p \in served => Has(inbox'[p], Eof)
                           /\ p \notin served => inbox'[p] = inbox[p]
      BY <2>4, <3>2, EofFacts, HasAppend DEF AgentExits
    <3>4. inbox' \in [Links -> Seq(Events)]
      BY <2>4, <3>3 DEF AgentExits
    <3> QED BY <3>1, <3>3, <3>4 DEF Sockets, SocketTypes, NoOrphan, GoodEnds
  <2>5. ASSUME \/ \E k \in Timers : TimerFires(k)
               \/ OnFirstFailed \/ OnRetryFailed
               \/ AgentStarts \/ AgentDefers \/ AgentServes \/ AgentUnlinks
               \/ UNCHANGED vars
        PROVE  Sockets'
    <3>1. UNCHANGED <<pipe, idSeq>> /\ UNCHANGED <<dials, wires>>
      BY <2>5 DEF TimerFires, OnFirstFailed, OnRetryFailed, AgentStarts,
                  AgentDefers, AgentServes, AgentUnlinks, vars, flags
    <3> QED BY <1>1, <3>1
  <2> QED BY <1>10, <2>1, <2>2, <2>3, <2>4, <2>5 DEF Elsewhere
<1> QED BY <1>3, <1>4, <1>5, <1>6, <1>7, <1>8, <1>9, <1>10, StepKinds


\* A step leaves the queue of `vim.schedule` as it is, takes its first entry,
\* or adds one at its end.
LEMMA QueueMoves ==
    ASSUME IInv, [Next]_vars
    PROVE  /\ sched' \in Seq(Events)
           /\ MainLoop => sched # <<>> /\ sched' = Tail(sched)
           /\ ~MainLoop => \A e : Has(sched, e) => Has(sched', e)
<1> USE DEF IInv, LoopTypes
<1>1. CASE MainLoop
  <2>1. sched # <<>> /\ sched' = Tail(sched)
    BY <1>1 DEF MainLoop, OnConnected, OnFirstFailed, OnNoBinary, OnRetryFailed,
                OnRetriesOver, OnTick, OnAnswer, OnHello, OnHelloFailed, OnEof,
                Runs, Head_
  <2> QED BY <1>1, <2>1, HasTail
<1>2. ASSUME NEW m \in Events, sched' = Append(sched, m)
      PROVE  sched' \in Seq(Events) /\ \A e : Has(sched, e) => Has(sched', e)
  BY <1>2, HasAppend
<1>3. ASSUME NEW p \in Links, ConnectCb(p)
      PROVE  \E m \in Events : sched' = Append(sched, m)
  <2>1. by[p] \in Timers \cup {First}
    BY DEF Sockets, SocketTypes
  <2> QED BY <1>3, <2>1, EofFacts DEF ConnectCb, Schedule
<1>4. ASSUME NEW p \in Links, ReadCb(p)
      PROVE  \E m \in Events : sched' = Append(sched, m)
  <2>1. inbox[p] \in Seq(Events) /\ inbox[p] # <<>>
    BY <1>4 DEF ReadCb, Sockets, SocketTypes
  <2> QED BY <1>4, <2>1, HasTail DEF ReadCb, Schedule
<1>5. ASSUME NEW k \in Timers, TimerFires(k)
      PROVE  \E m \in Events : sched' = Append(sched, m)
  BY <1>5, EofFacts DEF TimerFires, Schedule
<1>6. CASE \/ \E r \in Requests : Request(r) \/ RequestRefused(r)
           \/ \E p \in Links : AgentAnswers(p)
           \/ Stop \/ AgentStarts \/ AgentDefers \/ AgentServes
           \/ AgentUnlinks \/ AgentExits \/ UNCHANGED vars
  <2>1. UNCHANGED sched
    BY <1>6 DEF Request, RequestRefused, AgentAnswers, Stop, AgentStarts,
                AgentDefers, AgentServes, AgentUnlinks, AgentExits, vars
  <2>2. \A e : Has(sched, e) => Has(sched', e)
    BY <2>1 DEF Has
  <2> QED BY <1>1, <2>1, <2>2
<1> QED BY <1>1, <1>2, <1>3, <1>4, <1>5, <1>6 DEF Next

LEMMA LoopStep ==
    ASSUME IInv, [Next]_vars
    PROVE  LoopTypes'
<1> USE DEF IInv, LoopTypes
<1>1. sched' \in Seq(Events)
  BY QueueMoves
<1>2. timer' \in [Timers -> {"new", "on", "closed"}]
  <2>1. ASSUME NEW k, NEW v \in {"new", "on", "closed"}
        PROVE  [timer EXCEPT ![k] = v] \in [Timers -> {"new", "on", "closed"}]
    OBVIOUS
  <2>2. CASE OnConnected
    BY <2>1, <2>2 DEF OnConnected
  <2>3. CASE OnFirstFailed
    BY <2>1, <2>3 DEF OnFirstFailed
  <2>4. CASE OnRetriesOver
    BY <2>1, <2>4 DEF OnRetriesOver
  <2>5. CASE ~(OnConnected \/ OnFirstFailed \/ OnRetriesOver)
    <3>1. UNCHANGED timer
      BY <2>5 DEF Next, MainLoop, Request, RequestRefused, Stop, ConnectCb, ReadCb,
                  TimerFires, AgentAnswers, OnNoBinary, OnRetryFailed, OnTick,
                  OnAnswer, OnHello, OnHelloFailed, OnEof, AgentStarts,
                  AgentDefers, AgentServes, AgentUnlinks, AgentExits, clocks, vars
    <3> QED BY <3>1
  <2> QED BY <2>2, <2>3, <2>4, <2>5
<1>3. tries' \in [Timers -> 0..MaxTries]
  <2>1. ASSUME NEW k \in Timers, TimerFires(k)
        PROVE  tries' \in [Timers -> 0..MaxTries]
    <3>1. tries' = [tries EXCEPT ![k] = IF @ < MaxTries THEN @ + 1 ELSE @]
      BY <2>1 DEF TimerFires
    <3>2. tries[k] \in 0..MaxTries /\ MaxTries \in Nat
      BY ClientAssumption
    <3>3. (IF tries[k] < MaxTries THEN tries[k] + 1 ELSE tries[k]) \in 0..MaxTries
      BY <3>2
    <3> QED BY <3>1, <3>3
  <2>2. CASE ~\E k \in Timers : TimerFires(k)
    <3>1. UNCHANGED tries
      BY <2>2 DEF Next, MainLoop, Request, RequestRefused, Stop, ConnectCb, ReadCb,
                  AgentAnswers, OnConnected, OnFirstFailed, OnNoBinary,
                  OnRetryFailed, OnRetriesOver, OnTick, OnAnswer, OnHello,
                  OnHelloFailed, OnEof, AgentStarts, AgentDefers, AgentServes,
                  AgentUnlinks, AgentExits, clocks, vars
    <3> QED BY <3>1
  <2> QED BY <2>1, <2>2
<1>4. agent' \in {"absent", "starting", "serving", "leaving"}
  BY DEF Next, MainLoop, Request, RequestRefused, Stop, ConnectCb, ReadCb,
         TimerFires, AgentAnswers, OnConnected, OnFirstFailed, OnNoBinary,
         OnRetryFailed, OnRetriesOver, OnTick, OnAnswer, OnHello, OnHelloFailed,
         OnEof, AgentStarts, AgentDefers, AgentServes, AgentUnlinks, AgentExits,
         daemons, vars
<1> QED BY <1>1, <1>2, <1>3, <1>4


-----------------------------------------------------------------------------
(* Nothing pending is forgotten.                                           *)

\* The end of a stream is still to be handled; so is the answer to x.
EndComes == Has(inbox[pipe], Eof) \/ Has(sched, Eof)
Comes(x) ==
    \/ x \in out[pipe]
    \/ Has(inbox[pipe], Ev("reply", x))
    \/ Has(sched, Ev("reply", x))

LEMMA WayFacts ==
    /\ \A x : OnItsWay(x) <=> EndComes \/ Comes(x)
    /\ PipeEnds <=> (pipe # None /\ pipe \notin served => EndComes)
  BY DEF OnItsWay, EndComes, Comes, PipeEnds

\* The client keeps its pipe, what was on its way stays so, and what becomes
\* pending is sent or finds the stream at its end.
LEMMA AliveKept ==
    ASSUME Alive, pipe # None, pipe' = pipe,
           pipe \in served /\ pipe \notin served' => EndComes',
           EndComes => EndComes',
           \A x \in pending \cap pending' : Comes(x) => EndComes' \/ Comes(x)',
           pipe \in served => \A x \in pending' \ pending : EndComes' \/ Comes(x)'
    PROVE  Alive'
<1>1. /\ \A x : OnItsWay(x)' <=> EndComes' \/ Comes(x)'
      /\ PipeEnds' <=> (pipe' # None /\ pipe' \notin served' => EndComes')
  BY DEF OnItsWay, EndComes, Comes, PipeEnds
<1>2. PipeEnds'
  BY <1>1, WayFacts DEF Alive
<1>3. ASSUME NEW x \in pending' PROVE EndComes' \/ Comes(x)'
  <2>1. CASE x \in pending
    <3>1. EndComes \/ Comes(x)
      BY <2>1, WayFacts DEF Alive, PendingAlive
    <3> QED BY <2>1, <3>1
  <2>2. CASE x \notin pending
    BY <2>2, WayFacts DEF Alive
  <2> QED BY <2>1, <2>2
<1>4. PendingAlive'
  BY <1>1, <1>3 DEF PendingAlive
<1> QED BY <1>2, <1>4 DEF Alive

\* The same for a step that leaves the pipe's stream alone: of the queue it
\* may take what nothing waits for any more.
LEMMA StreamKept ==
    ASSUME Alive, pipe # None, pipe' = pipe,
           pipe \in served <=> pipe \in served',
           inbox'[pipe] = inbox[pipe], out[pipe] \subseteq out'[pipe],
           Has(sched, Eof) => Has(sched', Eof),
           \A x \in pending \cap pending' :
               Has(sched, Ev("reply", x)) => Has(sched', Ev("reply", x)),
           pipe \in served => pending' \ pending \subseteq out'[pipe]
    PROVE  Alive'
<1>1. EndComes => EndComes'
  BY DEF EndComes, Has
<1>2. \A x \in pending \cap pending' : Comes(x) => Comes(x)'
  BY DEF Comes, Has
<1>3. pipe \in served => \A x \in pending' \ pending : Comes(x)'
  BY DEF Comes
<1> QED BY <1>1, <1>2, <1>3, AliveKept

\* Taking an entry of another kind loses neither end nor answer.
LEMMA TakesOther ==
    ASSUME sched \in Seq(Events), NEW k \in {"connected", "failed", "tick", "reply"},
           Runs(k)
    PROVE  /\ Has(sched, Eof) => Has(sched', Eof)
           /\ \A x : Ev("reply", x) # Head(sched) /\ Has(sched, Ev("reply", x))
                         => Has(sched', Ev("reply", x))
<1>1. sched # <<>> /\ Head(sched).kind = k /\ sched' = Tail(sched)
  BY DEF Runs, Head_
<1>2. Head(sched) # Eof
  BY <1>1 DEF Eof, Ev
<1> QED BY <1>1, <1>2, HasTail

LEMMA AliveStep ==
    ASSUME IInv, [Next]_vars
    PROVE  Alive'
<1> USE DEF IInv
<1>1. ASSUME pipe' = None, pending' = {} PROVE Alive'
  BY <1>1 DEF Alive, PipeEnds, PendingAlive
<1>2. pipe = None => pending = {}
  BY DEF Alive, PendingAlive
<1>3. sched \in Seq(Events) /\ pipe \in Links \cup {None}
      /\ \A p \in Links : inbox[p] \in Seq(Events)
  BY DEF LoopTypes, Calling, RequestTypes, Sockets, SocketTypes
<1>4. ASSUME NEW r \in Requests, Request(r) PROVE Alive'
  <2>1. UNCHANGED <<pipe, sched>>
    BY <1>4 DEF Request
  <2>2. CASE ready /\ pipe # None
    <3>1. Send({r}) /\ pending' = pending \cup {r} /\ UNCHANGED <<served, inbox, idSeq>>
      BY <1>4, <2>2 DEF Request
    <3>2. {r} \subseteq Ids' /\ Ids' = Ids
      BY <3>1 DEF Ids
    <3>3. out[pipe] \subseteq out'[pipe] /\ (pipe \in served => r \in out'[pipe])
      BY <1>3, <2>2, <3>1, <3>2, SendFacts
    <3> QED BY <2>1, <2>2, <3>1, <3>3, StreamKept DEF Has
  <2>3. CASE ~(ready /\ pipe # None)
    <3>1. UNCHANGED pending
      BY <1>4, <2>3 DEF Request
    <3>2. CASE pipe = None
      BY <1>1, <1>2, <2>1, <3>1, <3>2
    <3>3. CASE pipe # None
      <4>1. /\ pipe \in served <=> pipe \in served'
            /\ inbox'[pipe] = inbox[pipe] /\ out'[pipe] = out[pipe]
        <5>1. CASE connecting
          BY <1>4, <2>3, <5>1 DEF Request, wires
        <5>2. CASE ~connecting
          <6>1. Dial(Spare, First) /\ Room /\ UNCHANGED idSeq
            BY <1>4, <2>3, <5>2 DEF Request
          <6>2. Spare \in Links /\ pipe # Spare
            BY <1>3, <6>1, SpareFacts DEF Unused, Sockets, NoOrphan
          <6> QED BY <1>3, <2>1, <3>3, <6>1, <6>2, DialSockets
        <5> QED BY <5>1, <5>2
      <4> QED BY <2>1, <3>1, <3>3, <4>1, StreamKept DEF Has
    <3> QED BY <3>2, <3>3
  <2> QED BY <2>2, <2>3
<1>5. ASSUME NEW r \in Requests, RequestRefused(r) PROVE Alive'
  BY <1>1, <1>5 DEF RequestRefused, Settle
<1>6. CASE TearsDown
  BY <1>1, <1>6, TeardownCalling, TeardownSockets, <1>3 DEF TearsDown
<1>7. ASSUME NEW p \in Links, ConnectCb(p) PROVE Alive'
  <2>1. pipe # p /\ UNCHANGED <<pending, idSeq>>
    BY <1>7 DEF ConnectCb, Sockets, NoOrphan
  <2>2. CASE link[p] = "good" /\ pipe = None
    <3>1. pipe' = p /\ UNCHANGED <<served, inbox>>
      BY <1>7, <2>2 DEF ConnectCb, wires
    <3>2. p \notin served => Has(inbox[p], Eof)
      BY <2>2 DEF Sockets, GoodEnds
    <3>3. PipeEnds'
      BY <3>1, <3>2 DEF PipeEnds, Has
    <3> QED BY <1>2, <2>1, <2>2, <3>3 DEF Alive, PendingAlive
  <2>3. CASE ~(link[p] = "good" /\ pipe = None)
    <3>1. Close(p) /\ Schedule(Ev("failed", by[p])) /\ UNCHANGED pipe
      BY <1>7, <2>3 DEF ConnectCb
    <3>2. CASE pipe = None
      BY <1>1, <1>2, <2>1, <3>1, <3>2
    <3>3. CASE pipe # None
      <4>1. /\ pipe \in served <=> pipe \in served'
            /\ inbox'[pipe] = inbox[pipe] /\ out'[pipe] = out[pipe]
        BY <1>3, <2>1, <3>1, <3>3, CloseSockets
      <4>2. \A e : Has(sched, e) => Has(sched', e)
        <5>1. by[p] \in Timers \cup {First}
          BY DEF Sockets, SocketTypes
        <5> QED BY <1>3, <3>1, <5>1, EofFacts, HasAppend DEF Schedule
      <4> QED BY <2>1, <3>1, <3>3, <4>1, <4>2, StreamKept
    <3> QED BY <3>2, <3>3
  <2> QED BY <2>2, <2>3
<1>8. CASE OnConnected
  <2>1. /\ Has(sched, Eof) => Has(sched', Eof)
        /\ \A x : Has(sched, Ev("reply", x)) => Has(sched', Ev("reply", x))
    <3>1. Runs("connected") /\ \A x : Ev("reply", x) # Head(sched)
      BY <1>8 DEF OnConnected, Runs, Head_, Ev
    <3> QED BY <1>3, <3>1, TakesOther
  <2>2. CASE pipe = None
    BY <1>1, <1>2, <1>8, <2>2 DEF OnConnected, flags
  <2>3. CASE pipe # None
    <3>1. /\ Send({idSeq + 1}) /\ pending' = pending \cup {idSeq + 1}
          /\ idSeq' = idSeq + 1 /\ UNCHANGED <<pipe, served, inbox>>
      BY <1>8, <2>3 DEF OnConnected
    <3>2. {idSeq + 1} \subseteq Ids' /\ Ids \subseteq Ids'
      BY <3>1 DEF Ids, Calling, RequestTypes
    <3>3. out[pipe] \subseteq out'[pipe]
          /\ (pipe \in served => {idSeq + 1} \subseteq out'[pipe])
      BY <1>3, <2>3, <3>1, <3>2, SendFacts
    <3> QED BY <2>1, <2>3, <3>1, <3>3, StreamKept
  <2> QED BY <2>2, <2>3
<1>9. CASE OnHello
  <2> DEFINE x == Head(sched).of
  <2>1. /\ x \in pending \ Requests /\ pending' = (pending \ {x}) \cup waiters
        /\ Runs("reply") /\ Send(waiters) /\ UNCHANGED <<pipe, idSeq, served, inbox>>
    BY <1>9 DEF OnHello
  <2>2. waiters \subseteq Requests /\ waiters \subseteq Ids' /\ Ids' = Ids
    BY <2>1 DEF Ids, Calling, RequestTypes
  <2>3. pipe # None
    BY <1>2, <2>1
  <2>4. out[pipe] \subseteq out'[pipe]
        /\ (pipe \in served => waiters \subseteq out'[pipe])
    BY <1>3, <2>1, <2>2, <2>3, SendFacts
  <2>5. \A y \in pending' : Ev("reply", y) # Head(sched)
    BY <2>1, <2>2 DEF Ev
  <2>6. /\ Has(sched, Eof) => Has(sched', Eof)
        /\ \A y \in pending' : Has(sched, Ev("reply", y)) => Has(sched', Ev("reply", y))
    BY <1>3, <2>1, <2>5, TakesOther
  <2> QED BY <2>1, <2>3, <2>4, <2>6, StreamKept
<1>10. CASE OnAnswer
  <2> DEFINE x == Head(sched).of
  <2>1. /\ pending' = pending \ {x} /\ Runs("reply")
        /\ UNCHANGED <<pipe, served, inbox, out>>
    BY <1>10 DEF OnAnswer, wires
  <2>2. \A y \in pending' : Ev("reply", y) # Head(sched)
    BY <2>1 DEF Ev
  <2>3. /\ Has(sched, Eof) => Has(sched', Eof)
        /\ \A y \in pending' : Has(sched, Ev("reply", y)) => Has(sched', Ev("reply", y))
    BY <1>3, <2>1, <2>2, TakesOther
  <2>4. CASE pipe = None
    BY <1>1, <1>2, <2>1, <2>4
  <2>5. CASE pipe # None
    BY <2>1, <2>3, <2>5, StreamKept
  <2> QED BY <2>4, <2>5
<1>11. CASE Elsewhere
  <2>1. UNCHANGED <<pipe, pending, idSeq>>
    BY <1>11 DEF Elsewhere, ReadCb, AgentAnswers, TimerFires, OnFirstFailed,
                 OnRetryFailed, OnTick, AgentStarts, AgentDefers, AgentServes,
                 AgentUnlinks, AgentExits, vars, flags
  <2>2. CASE pipe = None
    BY <1>1, <1>2, <2>1, <2>2
  <2>3. CASE pipe # None
    <3>1. pipe \in Links /\ inbox[pipe] \in Seq(Events)
      BY <1>3, <2>3
    <3>2. ASSUME NEW p \in Links, ReadCb(p) PROVE Alive'
      <4>1. /\ inbox[p] # <<>> /\ sched' = Append(sched, Head(inbox[p]))
            /\ inbox' = [inbox EXCEPT ![p] = Tail(@)] /\ UNCHANGED <<served, out>>
        BY <3>2 DEF ReadCb, Schedule
      <4>2. \A e : Has(sched', e) <=> Has(sched, e) \/ Head(inbox[p]) = e
        <5>1. inbox[p] \in Seq(Events)
          BY <1>3, <3>2
        <5>2. Head(inbox[p]) \in Events
          BY <4>1, <5>1, HasTail
        <5> QED BY <1>3, <4>1, <5>2, HasAppend
      <4>3. inbox \in [Links -> Seq(Events)]
        BY DEF Sockets, SocketTypes
      <4>4. \A e : Has(inbox[pipe], e) => Has(inbox'[pipe], e) \/ Has(sched', e)
        <5>1. CASE p = pipe
          <6>1. inbox'[pipe] = Tail(inbox[pipe])
            BY <3>1, <4>1, <4>3, <5>1
          <6>2. \A e : Has(inbox[pipe], e)
                           <=> Head(inbox[pipe]) = e \/ Has(Tail(inbox[pipe]), e)
            BY <3>1, <4>1, <5>1, HasTail
          <6> QED BY <4>2, <5>1, <6>1, <6>2
        <5>2. CASE p # pipe
          <6>1. inbox'[pipe] = inbox[pipe]
            BY <4>1, <4>3, <5>2
          <6> QED BY <6>1
        <5> QED BY <5>1, <5>2
      <4>5. EndComes => EndComes'
        BY <2>1, <4>2, <4>4 DEF EndComes
      <4>6. \A x : Comes(x) => Comes(x)'
        BY <2>1, <4>1, <4>2, <4>4 DEF Comes
      <4> QED BY <2>1, <2>3, <4>1, <4>5, <4>6, AliveKept
    <3>3. ASSUME NEW p \in Links, AgentAnswers(p) PROVE Alive'
      <4>1. PICK x \in out[p] :
                /\ out' = [out EXCEPT ![p] = @ \ {x}]
                /\ inbox' = [inbox EXCEPT ![p] = Append(@, Ev("reply", x))]
                /\ UNCHANGED <<sched, served>>
        BY <3>3 DEF AgentAnswers
      <4>2. Ev("reply", x) \in Events
        <5>1. x \in Requests \cup Nat
          BY <4>1 DEF Sockets, SocketTypes, Ids
        <5> QED BY <5>1, EofFacts
      <4>3. /\ \A e : Has(inbox[pipe], e) => Has(inbox'[pipe], e)
            /\ \A y \in out[pipe] \ out'[pipe] : Has(inbox'[pipe], Ev("reply", y))
        <5>1. inbox \in [Links -> Seq(Events)] /\ out \in [Links -> SUBSET Ids]
          BY DEF Sockets, SocketTypes
        <5>2. CASE p = pipe
          <6>1. /\ inbox'[pipe] = Append(inbox[pipe], Ev("reply", x))
                /\ out'[pipe] = out[pipe] \ {x}
            BY <3>1, <4>1, <5>1, <5>2
          <6>2. \A e : Has(inbox'[pipe], e) <=> Has(inbox[pipe], e) \/ Ev("reply", x) = e
            BY <3>1, <4>2, <6>1, HasAppend
          <6> QED BY <6>1, <6>2
        <5>3. CASE p # pipe
          <6>1. inbox'[pipe] = inbox[pipe] /\ out'[pipe] = out[pipe]
            BY <3>1, <4>1, <5>1, <5>3
          <6> QED BY <6>1
        <5> QED BY <5>2, <5>3
      <4>4. EndComes => EndComes'
        BY <2>1, <4>1, <4>3 DEF EndComes
      <4>5. \A y : Comes(y) => Comes(y)'
        BY <2>1, <4>1, <4>3 DEF Comes
      <4> QED BY <2>1, <2>3, <4>1, <4>4, <4>5, AliveKept
    <3>4. CASE AgentExits
      <4>1. /\ pipe \in served => inbox'[pipe] = Append(inbox[pipe], Eof)
            /\ pipe \notin served => inbox'[pipe] = inbox[pipe]
            /\ served' = {} /\ UNCHANGED sched
        BY <3>1, <3>4 DEF AgentExits
      <4>2. CASE pipe \in served
        <5>1. Has(Append(inbox[pipe], Eof), Eof)
          <6>1. Eof \in Events
            BY EofFacts
          <6> QED BY <3>1, <6>1, HasAppend
        <5>2. EndComes'
          BY <2>1, <4>1, <4>2, <5>1 DEF EndComes
        <5> QED BY <2>1, <2>3, <4>2, <5>2, AliveKept
      <4>3. CASE pipe \notin served
        <5>1. EndComes
          BY <2>3, <4>3, WayFacts DEF Alive
        <5>2. EndComes'
          BY <2>1, <4>1, <4>3, <5>1 DEF EndComes
        <5> QED BY <2>1, <2>3, <4>3, <5>2, AliveKept
      <4> QED BY <4>2, <4>3
    <3>5. ASSUME \/ OnTick \/ OnFirstFailed \/ OnRetryFailed
          PROVE  Alive'
      <4>1. UNCHANGED <<served, out, inbox>>
        BY <2>3, <3>5 DEF OnTick, OnFirstFailed, OnRetryFailed, wires
      <4>2. Runs("tick") \/ Runs("failed")
        BY <3>5 DEF OnTick, OnFirstFailed, OnRetryFailed
      <4>3. \A x : Ev("reply", x) # Head(sched)
        BY <4>2 DEF Runs, Head_, Ev
      <4>4. /\ Has(sched, Eof) => Has(sched', Eof)
            /\ \A x : Has(sched, Ev("reply", x)) => Has(sched', Ev("reply", x))
        BY <1>3, <4>2, <4>3, TakesOther
      <4> QED BY <2>1, <2>3, <4>1, <4>4, StreamKept
    <3>6. ASSUME \/ \E k \in Timers : TimerFires(k)
                 \/ AgentStarts \/ AgentDefers \/ AgentServes \/ AgentUnlinks
                 \/ UNCHANGED vars
          PROVE  Alive'
      <4>1. UNCHANGED <<served, out, inbox>>
        BY <3>6 DEF TimerFires, AgentStarts, AgentDefers, AgentServes,
                    AgentUnlinks, vars, wires
      <4>2. \A e : Has(sched, e) => Has(sched', e)
        <5>1. CASE \E k \in Timers : TimerFires(k)
          BY <1>3, <5>1, EofFacts, HasAppend DEF TimerFires, Schedule
        <5>2. CASE UNCHANGED sched
          BY <5>2
        <5> QED BY <3>6, <5>1, <5>2
              DEF AgentStarts, AgentDefers, AgentServes, AgentUnlinks, vars
      <4> QED BY <2>1, <2>3, <4>1, <4>2, StreamKept
    <3> QED BY <1>11, <3>2, <3>3, <3>4, <3>5, <3>6 DEF Elsewhere
  <2> QED BY <2>2, <2>3
<1> QED BY <1>4, <1>5, <1>6, <1>7, <1>8, <1>9, <1>10, <1>11, StepKinds

-----------------------------------------------------------------------------
(* The theorems.                                                           *)

LEMMA InitInductive == Init => IInv
<1> SUFFICES ASSUME Init PROVE IInv
  OBVIOUS
<1> USE DEF Init
<1>1. Calling
  <2>1. calls \in [Requests -> Nat] /\ \A r \in Requests : calls[r] = 0
    OBVIOUS
  <2>2. waiters \subseteq asked /\ asked \subseteq Requests /\ pending \subseteq Ids
    OBVIOUS
  <2>3. RequestTypes
    BY <2>1, <2>2 DEF RequestTypes
  <2>4. Once
    BY <2>1 DEF Once
  <2> QED BY <2>3, <2>4 DEF Calling
<1>2. Sockets
  BY ClientAssumption DEF Sockets, SocketTypes, NoOrphan, GoodEnds
<1>3. LoopTypes
  BY ClientAssumption DEF LoopTypes
<1>4. Alive
  BY DEF Alive, PipeEnds, PendingAlive
<1> QED BY <1>1, <1>2, <1>3, <1>4 DEF IInv

LEMMA Inductive == Spec => []IInv
<1>1. IInv /\ [Next]_vars => IInv'
  BY CallingStep, SocketsStep, LoopStep, AliveStep DEF IInv
<1> QED BY <1>1, InitInductive, PTL DEF Spec

\* Every variable of the connection keeps its type, for any requests, sockets
\* and timers: `ready` needs a pipe, a waiter an attempt, and no id is pending
\* or answered that was not given out.
THEOREM TypeCorrect == Spec => []TypeOK
<1>1. IInv => TypeOK
  BY DEF IInv, Calling, Sockets, TypeOK
<1> QED BY <1>1, Inductive, PTL

\* However attempts, retries and teardowns overlap, the open socket is the
\* one `pipe` holds: none is orphaned and the live one is not clobbered.
THEOREM OneSocket == Spec => []NoOrphan
<1>1. IInv => NoOrphan
  BY DEF IInv, Sockets
<1> QED BY <1>1, Inductive, PTL

\* No request is called back twice by `teardown`, the handshake and the
\* answers, re-entrant requests included.
THEOREM CalledAtMostOnce == Spec => []CalledOnce
<1>1. IInv => CalledOnce
  BY DEF IInv, Calling, Once, CalledOnce
<1> QED BY <1>1, Inductive, PTL

\* For an id that is pending there is a pipe, and its answer or the end of
\* the stream is on its way, though `send` may have dropped the message.
THEOREM PendingIsAlive == Spec => []PendingAlive
<1>1. IInv => PendingAlive
  BY DEF IInv, Alive
<1> QED BY <1>1, Inductive, PTL
=============================================================================
