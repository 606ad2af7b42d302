----------------------------- MODULE ClientConn -----------------------------
(***************************************************************************)
(* The editor's end of the connection, lua/lvim-keyring/daemon.lua:        *)
(* `ensure` connects to a live agent or spawns one and retries on a timer, *)
(* `request` correlates answers by id, `teardown` fails whatever is open.  *)
(*                                                                         *)
(* One thread, two kinds of steps: libuv callbacks (a connect completes,   *)
(* the timer ticks, bytes arrive), which only push onto the queue of       *)
(* `vim.schedule`, and the editor's main context, which runs that queue in *)
(* order and the API calls between its entries.  The agent is what this    *)
(* client sees of AgentLifetime: spawned processes take or find taken the  *)
(* flock, and a process may leave at any moment, socket first.             *)
(***************************************************************************)
EXTENDS Naturals, Sequences, FiniteSets

CONSTANTS
    Requests,    \* calls of `request`; `ensure` is one without a message
    Links,       \* sockets the client can have at once
    Timers,      \* retry timers, one per failed first attempt
    First, None,
    Follow,      \* the request a callback makes when its own has failed
    MaxTries,    \* ticks after which a timer gives up (25 in the code)
    MaxBreaks    \* bound: calls of `stop` and agent processes that leave

\* Bound: one request is followed by another.
ASSUME ClientAssumption ==
    /\ MaxTries \in Nat /\ MaxBreaks \in Nat
    /\ First \notin Timers /\ None \notin Links \cup Requests
    /\ Requests \cap Nat = {}
    /\ Follow \in [Requests -> Requests \cup {None}]
    /\ Cardinality({r \in Requests : Follow[r] # None}) <= 1
    /\ \A r \in Requests : Follow[r] # r

VARIABLES
    pipe, ready, connecting, waiters, pending,   \* daemon.lua:35-52
    idSeq,      \* ids used for handshakes
    link,       \* each socket: free, a connect that will succeed or fail, up
    by,         \* who dialled it: First, or the timer whose tick it was
    reading,    \* read_start was called on it
    timer,      \* each timer: new, on, closed
    tries,
    sched,      \* the queue of vim.schedule
    binary,     \* whether there is a daemon binary to spawn
    modern,     \* whether the agent's protocol is new enough
    agent,      \* absent, starting, serving, leaving (socket gone, lock held)
    spawned,    \* processes this client spawned that have not reached flock
    served,     \* sockets whose other end is open
    out, inbox, \* per socket: ids the agent has, and messages for the client
    breaks,     \* how much of the bound is used up
    asked, calls   \* history: requests made, and how often each was called back

setting == <<binary, modern>>
flags == <<pipe, ready, connecting, waiters, pending, idSeq>>
dials == <<link, by, reading>>
clocks == <<timer, tries>>
wires == <<served, out, inbox>>
daemons == <<setting, agent, spawned>>
tally == <<calls, asked>>
vars == <<flags, dials, clocks, sched, daemons, wires, tally, breaks>>

Ev(k, x) == [kind |-> k, of |-> x]
Eof == Ev("eof", None)

Init ==
    /\ pipe = None /\ ready = FALSE /\ connecting = FALSE
    /\ waiters = {} /\ pending = {} /\ idSeq = 0
    /\ link = [p \in Links |-> "free"]
    /\ by = [p \in Links |-> First]
    /\ reading = {}
    /\ timer = [k \in Timers |-> "new"]
    /\ tries = [k \in Timers |-> 0]
    /\ sched = <<>>
    /\ binary \in BOOLEAN /\ modern \in BOOLEAN
    /\ agent \in {"absent", "serving"}
    /\ spawned = 0
    /\ served = {}
    /\ out = [p \in Links |-> {}]
    /\ inbox = [p \in Links |-> <<>>]
    /\ breaks \in 0..MaxBreaks
    /\ asked = {} /\ calls = [r \in Requests |-> 0]

-----------------------------------------------------------------------------
(* Helpers.                                                                *)

Unused == {p \in Links : link[p] = "free"}
Ticks == {i \in 1..Len(sched) : sched[i].kind = "tick"}
\* Bound: every queued tick, and one more attempt, find a socket.
Room == Cardinality(Unused) > Cardinality(Ticks)

Schedule(e) == sched' = Append(sched, e)
Head_(k) == sched # <<>> /\ Head(sched).kind = k
\* The main context takes the next callback.
Runs(k) == Head_(k) /\ sched' = Tail(sched)

\* One callback per list a request is on.
CallBack(lists) ==
    calls' = [r \in Requests |->
                 calls[r] + Cardinality({i \in DOMAIN lists : r \in lists[i]})]

\* connect(2) on a unix socket is decided at once; its callback comes later.
Dial(p, who) ==
    LET answered == agent = "serving" IN
        /\ link' = [link EXCEPT ![p] = IF answered THEN "good" ELSE "bad"]
        /\ by' = [by EXCEPT ![p] = who]
        /\ reading' = reading \ {p}
        /\ served' = IF answered THEN served \cup {p} ELSE served \ {p}
        /\ out' = [out EXCEPT ![p] = {}]
        /\ inbox' = [inbox EXCEPT ![p] = <<>>]

Spare == CHOOSE p \in Unused : TRUE

Close(p) ==
    /\ link' = [link EXCEPT ![p] = "free"]
    /\ reading' = reading \ {p}
    /\ served' = served \ {p}
    /\ out' = [out EXCEPT ![p] = {}]
    /\ inbox' = [inbox EXCEPT ![p] = <<>>]
    /\ UNCHANGED by

\* Written to a socket whose other end is closed, a message is lost.
Send(ids) ==
    out' = IF pipe \in served THEN [out EXCEPT ![pipe] = @ \cup ids] ELSE out

Settle(isReady, open) ==
    /\ ready' = isReady /\ pending' = open
    /\ pipe' = None
    /\ UNCHANGED idSeq

\* Everybody is called back, and that is all.
Quiet(ws) ==
    /\ connecting' = FALSE /\ waiters' = {}
    /\ IF pipe = None THEN UNCHANGED <<dials, wires>> ELSE Close(pipe)
    /\ CallBack(<<pending, ws>>)
    /\ UNCHANGED asked

\* One of the callbacks makes another request: it finds no pipe and dials.
\* Made by one of `pending`, it joins the waiters that `teardown` fails next;
\* made by a waiter it stays, unless the waiters were failed early, by a
\* handshake's callback among `pending`.  Such a callback also clears
\* `connecting`, under the new attempt if it comes after it.  With the
\* callback of own running, the waiters come last.
AsksAgain(ws, own) ==
    \E r \in Requests \cap (pending \cup ws) :
        LET f == Follow[r]
            hellos == pending \ (Requests \cup own)
            fails == r \in pending \/ (own = {} /\ hellos # {})
        IN  /\ f \notin asked \cup {None}
            /\ pipe # None \/ Room
            /\ asked' = asked \cup {f}
            /\ Dial(IF pipe = None THEN Spare ELSE pipe, First)
            /\ waiters' = IF fails THEN {} ELSE {f}
            /\ CallBack(<<pending, ws, IF fails THEN {f} ELSE {}>>)
            /\ connecting' \in CASE hellos = {} \/ ~fails -> {TRUE}
                                 [] r \in pending -> BOOLEAN
                                 [] OTHER -> {Cardinality(hellos) = 1}

\* Variant: the callbacks stay registered.
TeardownKeepsPending(ws, own) == Settle(FALSE, pending) /\ Quiet(ws)

\* Variant: `ready` is not reset.
TeardownStaysReady(ws, own) == Settle(ready, {}) /\ Quiet(ws)

\* Variant: the waiters are cleared when all have been called.
TeardownClearsLate(ws, own) ==
    /\ Settle(FALSE, {})
    /\ \/ Quiet(ws)
       \/ \E r \in Requests \cap ws :
              /\ Follow[r] \notin asked \cup {None}
              /\ pipe # None \/ Room
              /\ asked' = asked \cup {Follow[r]}
              /\ Dial(IF pipe = None THEN Spare ELSE pipe, First)
              /\ connecting' = TRUE /\ waiters' = {}
              /\ CallBack(<<pending, ws>>)

\* `teardown` with ws waiting: everything open is failed, each once.  A
\* handshake's callback among `pending` fails the waiters itself.
Teardown(ws, own) ==
    /\ Settle(FALSE, {})
    /\ Quiet(ws) \/ AsksAgain(ws, own)

-----------------------------------------------------------------------------
(* The API.                                                                *)

\* `request`: at once when connected, else wait, and start an attempt unless
\* one is running.
Request(r) ==
    /\ r \notin asked
    /\ Room
    /\ asked' = asked \cup {r}
    /\ \/ /\ ready /\ pipe # None
          /\ pending' = pending \cup {r}
          /\ Send({r})
          /\ UNCHANGED <<pipe, ready, connecting, waiters, idSeq, dials, served,
                         inbox>>
       \/ /\ ~(ready /\ pipe # None)
          /\ waiters' = waiters \cup {r}
          /\ connecting' = TRUE
          /\ IF connecting THEN UNCHANGED <<dials, wires>> ELSE Dial(Spare, First)
          /\ UNCHANGED <<pipe, ready, pending, idSeq>>
    /\ UNCHANGED <<clocks, sched, daemons, calls, breaks>>

\* The socket's directory is not private: nothing is dialled, and a callback
\* that asks again is refused as well.
RequestRefused(r) ==
    /\ r \notin asked
    /\ ~(ready /\ pipe # None) /\ ~connecting
    /\ \E fs \in SUBSET ({Follow[q] : q \in {r} \cup waiters \cup (pending \cap Requests)}
                           \ (asked \cup {None, r})) :
           /\ asked' = asked \cup {r} \cup fs
           /\ CallBack(<<pending, waiters, {r}, fs>>)
    /\ Settle(FALSE, {})
    /\ connecting' = FALSE /\ waiters' = {}
    /\ IF pipe = None THEN UNCHANGED <<dials, wires>> ELSE Close(pipe)
    /\ UNCHANGED <<clocks, sched, daemons, breaks>>

Stop ==
    /\ breaks < MaxBreaks
    /\ breaks' = breaks + 1
    /\ Teardown(waiters, {})
    /\ UNCHANGED <<clocks, sched, daemons>>

-----------------------------------------------------------------------------
(* libuv callbacks.                                                        *)

\* Variant: a second connection is not looked for.
ConnectCbClobbers(p) ==
    /\ link[p] \in {"good", "bad"}
    /\ \/ /\ link[p] = "bad"
          /\ Close(p)
          /\ Schedule(Ev("failed", by[p]))
          /\ UNCHANGED pipe
       \/ /\ link[p] = "good"
          /\ pipe' = p
          /\ link' = [link EXCEPT ![p] = "up"]
          /\ Schedule(Ev("connected", by[p]))
          /\ UNCHANGED <<by, reading, wires>>
    /\ UNCHANGED <<ready, connecting, waiters, pending, idSeq, clocks, daemons,
                   tally, breaks>>

ConnectCb(p) ==
    /\ link[p] \in {"good", "bad"}
    /\ \/ /\ link[p] = "bad" \/ pipe # None
          /\ Close(p)
          /\ Schedule(Ev("failed", by[p]))
          /\ UNCHANGED pipe
       \/ /\ link[p] = "good" /\ pipe = None
          /\ pipe' = p
          /\ link' = [link EXCEPT ![p] = "up"]
          /\ Schedule(Ev("connected", by[p]))
          /\ UNCHANGED <<by, reading, wires>>
    /\ UNCHANGED <<ready, connecting, waiters, pending, idSeq, clocks, daemons,
                   tally, breaks>>

\* The counter is only compared with the limit, so it stops there.
TimerFires(k) ==
    /\ timer[k] = "on"
    /\ Room
    /\ tries' = [tries EXCEPT ![k] = IF @ < MaxTries THEN @ + 1 ELSE @]
    /\ Schedule(Ev("tick", k))
    /\ UNCHANGED <<flags, dials, timer, daemons, wires, tally, breaks>>

\* A line, or the end of the stream (a read error is handled like it).
ReadCb(p) ==
    /\ p \in reading
    /\ inbox[p] # <<>>
    /\ Schedule(Head(inbox[p]))
    /\ inbox' = [inbox EXCEPT ![p] = Tail(@)]
    /\ UNCHANGED <<flags, dials, clocks, daemons, served, out, tally, breaks>>

-----------------------------------------------------------------------------
(* The scheduled callbacks.                                                *)

\* Variant: `on_connected` does not look at `pipe` again.
OnConnectedBlind ==
    /\ Runs("connected")
    /\ LET k == Head(sched).of IN
         timer' = IF k \in Timers THEN [timer EXCEPT ![k] = "closed"] ELSE timer
    /\ reading' = reading \cup ({pipe} \ {None})
    /\ idSeq' = idSeq + 1
    /\ pending' = pending \cup {idSeq + 1}
    /\ Send({idSeq + 1})
    /\ UNCHANGED <<pipe, ready, connecting, waiters, link, by, served, inbox>>
    /\ UNCHANGED <<tries, daemons, tally, breaks>>

\* `on_connected` looks at `pipe` again; then the dialler's own callback
\* stops its timer.
OnConnected ==
    /\ Runs("connected")
    /\ LET k == Head(sched).of IN
         timer' = IF k \in Timers THEN [timer EXCEPT ![k] = "closed"] ELSE timer
    /\ \/ /\ pipe = None
          /\ UNCHANGED <<flags, dials, wires>>
       \/ /\ pipe # None
          /\ reading' = reading \cup {pipe}
          /\ idSeq' = idSeq + 1
          /\ pending' = pending \cup {idSeq + 1}
          /\ Send({idSeq + 1})
          /\ UNCHANGED <<pipe, ready, connecting, waiters, link, by, served,
                         inbox>>
    /\ UNCHANGED <<tries, daemons, tally, breaks>>

\* The first attempt failed: spawn, and retry on a new timer.
OnFirstFailed ==
    /\ Runs("failed")
    /\ Head(sched).of = First
    /\ binary
    /\ spawned' = spawned + 1
    /\ LET k == CHOOSE j \in Timers : timer[j] = "new" IN
         timer' = [timer EXCEPT ![k] = "on"]
    /\ UNCHANGED <<flags, dials, tries, setting, agent, wires, tally, breaks>>

\* There is no binary to spawn.
OnNoBinary ==
    /\ Runs("failed")
    /\ Head(sched).of = First
    /\ ~binary
    /\ Teardown(waiters, {})
    /\ UNCHANGED <<clocks, daemons, breaks>>

\* A retry failed and is not the last one, or its timer is closed already:
\* closing it again raises an error.
OnRetryFailed ==
    /\ Runs("failed")
    /\ LET k == Head(sched).of IN
         /\ k \in Timers
         /\ tries[k] < MaxTries \/ timer[k] = "closed"
    /\ UNCHANGED <<flags, dials, clocks, daemons, wires, tally, breaks>>

OnRetriesOver ==
    /\ Runs("failed")
    /\ LET k == Head(sched).of IN
         /\ k \in Timers
         /\ tries[k] >= MaxTries /\ timer[k] = "on"
         /\ timer' = [timer EXCEPT ![k] = "closed"]
    /\ Teardown(waiters, {})
    /\ UNCHANGED <<tries, daemons, breaks>>

\* Bound: there is a socket for it, see Room.
OnTick ==
    /\ Runs("tick")
    /\ pipe = None => Unused # {}
    /\ IF pipe = None THEN Dial(Spare, Head(sched).of) ELSE UNCHANGED <<dials, wires>>
    /\ UNCHANGED <<flags, clocks, daemons, tally, breaks>>

\* `on_message`: an answer to a request, or to nothing that is pending.
OnAnswer ==
    /\ Runs("reply")
    /\ LET x == Head(sched).of IN
         /\ x \in Requests \/ x \notin pending
         /\ pending' = pending \ {x}
         /\ CallBack(<<pending \cap {x}>>)
    /\ UNCHANGED <<pipe, ready, connecting, waiters, idSeq, dials, clocks, daemons,
                   wires, asked, breaks>>

\* The handshake succeeded: the waiters send their requests.
OnHello ==
    /\ Runs("reply")
    /\ LET x == Head(sched).of IN
         /\ x \in pending \ Requests
         /\ pending' = (pending \ {x}) \cup waiters
    /\ modern
    /\ ready' = TRUE /\ connecting' = FALSE
    /\ waiters' = {}
    /\ Send(waiters)
    /\ UNCHANGED <<pipe, idSeq, dials, clocks, daemons, served, inbox, tally, breaks>>

\* The agent's protocol is too old.
OnHelloFailed ==
    /\ Runs("reply")
    /\ Head(sched).of \in pending \ Requests
    /\ ~modern
    /\ Teardown(waiters, {Head(sched).of})
    /\ UNCHANGED <<clocks, daemons, breaks>>

OnEof ==
    /\ Runs("eof")
    /\ Teardown(waiters, {})
    /\ UNCHANGED <<clocks, daemons, breaks>>

MainLoop ==
    \/ OnConnected
    \/ OnFirstFailed
    \/ OnNoBinary
    \/ OnRetryFailed
    \/ OnRetriesOver
    \/ OnTick
    \/ OnAnswer
    \/ OnHello
    \/ OnHelloFailed
    \/ OnEof

-----------------------------------------------------------------------------
(* The agent, as far as a client sees it.                                  *)

\* A spawned process takes the lock.
AgentStarts ==
    /\ spawned > 0
    /\ agent = "absent"
    /\ agent' = "starting"
    /\ spawned' = spawned - 1
    /\ UNCHANGED <<flags, dials, clocks, sched, setting, wires, tally, breaks>>

\* Or finds it taken.
AgentDefers ==
    /\ spawned > 0
    /\ agent # "absent"
    /\ spawned' = spawned - 1
    /\ UNCHANGED <<flags, dials, clocks, sched, setting, agent, wires, tally, breaks>>

AgentServes ==
    /\ agent = "starting"
    /\ agent' = "serving"
    /\ UNCHANGED <<flags, dials, clocks, sched, setting, spawned, wires,
                   tally, breaks>>

\* Requests are answered in any order.
AgentAnswers(p) ==
    /\ p \in served
    /\ \E x \in out[p] :
           /\ out' = [out EXCEPT ![p] = @ \ {x}]
           /\ inbox' = [inbox EXCEPT ![p] = Append(@, Ev("reply", x))]
    /\ UNCHANGED <<flags, dials, clocks, sched, daemons, served, tally, breaks>>

\* It begins to end: the socket is gone, the lock is not.
AgentUnlinks ==
    /\ agent = "serving"
    /\ breaks < MaxBreaks
    /\ breaks' = breaks + 1
    /\ agent' = "leaving"
    /\ UNCHANGED <<flags, dials, clocks, sched, setting, spawned, wires, tally>>

AgentExits ==
    /\ agent = "leaving"
    /\ agent' = "absent"
    /\ inbox' = [p \in Links |-> IF p \in served THEN Append(inbox[p], Eof)
                                 ELSE inbox[p]]
    /\ out' = [p \in Links |-> {}]
    /\ served' = {}
    /\ UNCHANGED <<flags, dials, clocks, sched, setting, spawned, tally, breaks>>

Next ==
    \/ \E r \in Requests : Request(r) \/ RequestRefused(r)
    \/ Stop
    \/ \E p \in Links : ConnectCb(p) \/ ReadCb(p) \/ AgentAnswers(p)
    \/ \E k \in Timers : TimerFires(k)
    \/ MainLoop
    \/ AgentStarts \/ AgentDefers \/ AgentServes
    \/ AgentUnlinks \/ AgentExits

Spec == Init /\ [][Next]_vars

\* The event loop runs, timers fire, processes start, end and answer.
Fairness ==
    /\ WF_vars(MainLoop)
    /\ \A p \in Links : /\ WF_vars(ConnectCb(p))
                        /\ WF_vars(ReadCb(p))
                        /\ WF_vars(AgentAnswers(p))
    /\ \A k \in Timers : WF_vars(TimerFires(k))
    /\ WF_vars(AgentStarts \/ AgentDefers) /\ WF_vars(AgentServes)
    /\ WF_vars(AgentExits)

FairSpec == Spec /\ Fairness

-----------------------------------------------------------------------------
(* Properties.                                                             *)

Ids == Requests \cup (1..idSeq)
Events == [kind : {"connected", "failed"}, of : Timers \cup {First}]
              \cup [kind : {"tick"}, of : Timers]
              \cup [kind : {"reply"}, of : Requests \cup Nat]
              \cup {Eof}

\* `ready` only with a pipe, and waiters only while an attempt is announced.
RequestTypes ==
    /\ pipe \in Links \cup {None}
    /\ ready \in BOOLEAN /\ (ready => pipe # None)
    /\ waiters \subseteq asked
    /\ connecting \in BOOLEAN /\ (waiters # {} => connecting)
    /\ idSeq \in Nat /\ pending \subseteq Ids
    /\ asked \subseteq Requests /\ calls \in [Requests -> Nat]

\* An answer always belongs to an id that was given out.
SocketTypes ==
    /\ link \in [Links -> {"free", "good", "bad", "up"}]
    /\ by \in [Links -> Timers \cup {First}]
    /\ reading \subseteq {p \in Links : link[p] = "up"}
    /\ served \subseteq {p \in Links : link[p] \in {"good", "up"}}
    /\ out \in [Links -> SUBSET Ids]
    /\ inbox \in [Links -> Seq(Events)]

LoopTypes ==
    /\ timer \in [Timers -> {"new", "on", "closed"}]
    /\ tries \in [Timers -> 0..MaxTries]
    /\ sched \in Seq(Events)
    /\ agent \in {"absent", "starting", "serving", "leaving"}

TypeOK == RequestTypes /\ SocketTypes /\ LoopTypes

\* daemon.lua:341-345: of two connections one is surplus and is closed, "so
\* its fd is not orphaned nor the live `pipe` clobbered".  Every open socket
\* is the one the client holds.
NoOrphan == \A p \in Links : link[p] = "up" <=> pipe = p

\* `teardown`, the handshake and the answers between them call a request back
\* at most once.
CalledOnce == \A r \in Requests : calls[r] <= 1

\* Something is still on its way to end an id's wait: its answer, or the end
\* of the stream.
Has(msgs, e) == \E i \in 1..Len(msgs) : msgs[i] = e
OnItsWay(x) ==
    \/ x \in out[pipe]
    \/ \E e \in {Eof, Ev("reply", x)} : Has(inbox[pipe], e) \/ Has(sched, e)

\* No id is pending without a pipe, or on a pipe that will never mention it:
\* `send` drops a message silently when there is no pipe (daemon.lua:228).
PendingAlive == pending # {} => pipe # None /\ \A x \in pending : OnItsWay(x)

\* Every request is called back in the end, whatever the agent does and
\* however attempts, retries and disconnects overlap.
RequestAnswered == \A r \in Requests : r \in asked ~> calls[r] > 0
=============================================================================
