--------------------------- MODULE AgentLifetime ---------------------------
(***************************************************************************)
(* The agent as a process, native/src/main.rs `serve_socket` and           *)
(* `handle_conn`: several editors may each spawn one, the flock lets one   *)
(* serve, and it exits when its last client has gone, at once or after the *)
(* linger time.                                                            *)
(*                                                                         *)
(* A connection is one task of a multi-threaded runtime; its request       *)
(* handlers hold clones of its output channel, and the task waits for them *)
(* (`writer.await`) between counting the clients left and acting on that   *)
(* count.  Ending the process is three steps, lock, unlink, exit, and the  *)
(* other tasks run on until the last.                                      *)
(***************************************************************************)
EXTENDS Naturals, FiniteSets

CONSTANTS
    Daemons,    \* processes that get spawned
    Clients,    \* connections that get made
    Configs,    \* the settings a process may be spawned with
    Nobody

ASSUME ConfigsAssumption ==
    /\ Configs \subseteq [persist : BOOLEAN, lingers : BOOLEAN]
    /\ Configs # {}
ASSUME NobodyAssumption == Nobody \notin Daemons \cup Clients

VARIABLES
    proc,      \* how far each process is
    cfg,       \* its settings
    flock,     \* the process holding the lock on <sock>.lock
    sock,      \* the process whose listener is bound to the socket path
    exiting,   \* whether a task of it has begun to end it, and which kind
    conn,      \* how far each connection is
    at,        \* the process it is made to
    busy,      \* requests of it are in flight
    writer,    \* its writer task is running
    last,      \* what its `remaining == 0` evaluated to
    timers,    \* connections whose linger timer is running
    joined,    \* history: who registered with the process of a connection
               \* since its disconnect, or its timer, last counted the clients
    cause      \* history: the connection whose count ends the process

procVars == <<proc, cfg, flock, sock, exiting>>
connVars == <<conn, at, busy, writer, last>>
history == <<joined, cause>>
vars == <<procVars, connVars, timers, history>>

\* A process holding the lock, from `flock` to its end.
Holding == {"holding", "cleared", "serving"}
Alive == Holding \cup {"started"}

\* `Inner.clients`: from register_client to unregister_client.
Registered(d) == {c \in Clients : at[c] = d /\ conn[c] \in {"open", "eof"}}

Init ==
    /\ proc = [d \in Daemons |-> "off"]
    /\ cfg \in [Daemons -> Configs]
    /\ flock = Nobody
    /\ sock = Nobody
    /\ exiting = [d \in Daemons |-> "no"]
    /\ conn = [c \in Clients |-> "none"]
    /\ at = [c \in Clients |-> Nobody]
    /\ busy = [c \in Clients |-> FALSE]
    /\ writer = [c \in Clients |-> TRUE]
    /\ last = [c \in Clients |-> FALSE]
    /\ timers = {}
    /\ joined = [c \in Clients |-> {}]
    /\ cause = [d \in Daemons |-> Nobody]

Becomes(d, s) == proc' = [proc EXCEPT ![d] = s]
Moves(c, s) == conn' = [conn EXCEPT ![c] = s]

\* A task goes on to lock, unlink and exit, unless another was faster.
Decide(c) ==
    /\ exiting' = [exiting EXCEPT ![at[c]] =
                       IF @ = "unlinked" THEN @ ELSE "last"]
    /\ cause' = [cause EXCEPT ![at[c]] = IF @ = Nobody THEN c ELSE @]

\* The kernel's part of an exit: descriptors close, the lock is released,
\* every task is gone.
Ends(d) ==
    /\ Becomes(d, "gone")
    /\ flock' = IF flock = d THEN Nobody ELSE flock
    /\ conn' = [c \in Clients |-> IF at[c] = d THEN "over" ELSE conn[c]]
    /\ busy' = [c \in Clients |-> busy[c] /\ at[c] # d]
    /\ timers' = {c \in timers : at[c] # d}
    /\ UNCHANGED <<cfg, exiting, at, writer, last, history>>

-----------------------------------------------------------------------------
(* Starting: `serve_socket` up to the accept loop.                         *)

Spawn(d) ==
    /\ proc[d] = "off"
    /\ Becomes(d, "started")
    /\ UNCHANGED <<cfg, flock, sock, exiting, connVars, timers, history>>

\* Variant: the lock file is dropped, and with it the lock.
TakeFlockDropped(d) ==
    /\ proc[d] = "started"
    /\ flock = Nobody
    /\ Becomes(d, "holding")
    /\ UNCHANGED <<cfg, flock, sock, exiting, connVars, timers, history>>

\* Non-blocking: whoever finds it taken defers to the holder.
TakeFlock(d) ==
    /\ proc[d] = "started"
    /\ flock = Nobody
    /\ flock' = d
    /\ Becomes(d, "holding")
    /\ UNCHANGED <<cfg, sock, exiting, connVars, timers, history>>

\* Variant: the socket is cleared before the lock is asked for.
DeferClearing(d) ==
    /\ proc[d] = "started"
    /\ flock # Nobody
    /\ sock' = Nobody
    /\ Ends(d)

Defer(d) ==
    /\ proc[d] = "started"
    /\ flock # Nobody
    /\ Ends(d)
    /\ UNCHANGED sock

ClearStale(d) ==
    /\ proc[d] = "holding"
    /\ Becomes(d, "cleared")
    /\ sock' = Nobody
    /\ UNCHANGED <<cfg, flock, exiting, connVars, timers, history>>

Bind(d) ==
    /\ proc[d] = "cleared"
    /\ sock = Nobody
    /\ sock' = d
    /\ Becomes(d, "serving")
    /\ UNCHANGED <<cfg, flock, exiting, connVars, timers, history>>

BindFails(d) ==
    /\ proc[d] = "cleared"
    /\ Ends(d)
    /\ UNCHANGED sock

-----------------------------------------------------------------------------
(* A connection: `handle_conn`.                                            *)

\* connect(2) succeeds while the listener is there, before any accept.
Connect(c) ==
    /\ conn[c] = "none"
    /\ sock # Nobody
    /\ proc[sock] = "serving"
    /\ at' = [at EXCEPT ![c] = sock]
    /\ Moves(c, "backlog")
    /\ UNCHANGED <<procVars, busy, writer, last, timers, history>>

\* Accepted, and the new task has called register_client.
Accept(c) ==
    /\ conn[c] = "backlog"
    /\ Moves(c, "open")
    /\ joined' = [x \in Clients |-> IF at[x] = at[c] THEN joined[x] \cup {c}
                                   ELSE joined[x]]
    /\ UNCHANGED <<procVars, at, busy, writer, last, timers, cause>>

Request(c) ==
    /\ conn[c] = "open"
    /\ ~busy[c]
    /\ busy' = [busy EXCEPT ![c] = TRUE]
    /\ UNCHANGED <<procVars, conn, at, writer, last, timers, history>>

Respond(c) ==
    /\ busy[c]
    /\ busy' = [busy EXCEPT ![c] = FALSE]
    /\ UNCHANGED <<procVars, conn, at, writer, last, timers, history>>

\* The editor closes its end; the read loop ends.
Close(c) ==
    /\ conn[c] = "open"
    /\ Moves(c, "eof")
    /\ UNCHANGED <<procVars, at, busy, writer, last, timers, history>>

\* Variant: the clients are counted before this one is removed.
UnregisterLate(c) ==
    /\ conn[c] = "eof"
    /\ Moves(c, "draining")
    /\ last' = [last EXCEPT ![c] = (Registered(at[c]) = {})]
    /\ joined' = [joined EXCEPT ![c] = {}]
    /\ UNCHANGED <<procVars, at, busy, writer, timers, cause>>

\* unregister_client removes and counts under one lock.
Unregister(c) ==
    /\ conn[c] = "eof"
    /\ Moves(c, "draining")
    /\ last' = [last EXCEPT ![c] = (Registered(at[c]) = {c})]
    /\ joined' = [joined EXCEPT ![c] = {}]
    /\ UNCHANGED <<procVars, at, busy, writer, timers, cause>>

\* The peer is gone: a response or a notification could not be written, and
\* the writer task ends although requests still hold the channel.
WriterFails(c) ==
    /\ conn[c] \in {"eof", "draining"}
    /\ writer[c]
    /\ writer' = [writer EXCEPT ![c] = FALSE]
    /\ UNCHANGED <<procVars, conn, at, busy, last, timers, history>>

\* `writer.await` returned: no request holds the channel any more, or a write
\* failed.  Now the count taken before is acted on.
Awaited(c) == conn[c] = "draining" /\ (~busy[c] \/ ~writer[c])

Drained(c) ==
    /\ Awaited(c)
    /\ ~last[c] \/ cfg[at[c]].persist
    /\ Moves(c, "over")
    /\ UNCHANGED <<procVars, at, busy, writer, last, timers, history>>

\* Variant: `persist` is not looked at.
DrainedLastAlways(c) ==
    /\ Awaited(c)
    /\ last[c]
    /\ Moves(c, "over")
    /\ \/ /\ ~cfg[at[c]].lingers
          /\ Decide(c)
          /\ UNCHANGED timers
       \/ /\ cfg[at[c]].lingers
          /\ timers' = timers \cup {c}
          /\ UNCHANGED <<exiting, cause>>
    /\ UNCHANGED <<proc, cfg, flock, sock, at, busy, writer, last, joined>>

DrainedLast(c) ==
    /\ Awaited(c)
    /\ last[c]
    /\ ~cfg[at[c]].persist
    /\ Moves(c, "over")
    /\ \/ /\ ~cfg[at[c]].lingers
          /\ Decide(c)
          /\ UNCHANGED timers
       \/ /\ cfg[at[c]].lingers
          /\ timers' = timers \cup {c}
          /\ UNCHANGED <<exiting, cause>>
    /\ UNCHANGED <<proc, cfg, flock, sock, at, busy, writer, last, joined>>

\* Variant: the linger timer does not look at the clients again.
TimerFiresBlind(c) ==
    /\ c \in timers
    /\ timers' = timers \ {c}
    /\ Decide(c)
    /\ joined' = [joined EXCEPT ![c] = {}]
    /\ UNCHANGED <<proc, cfg, flock, sock, connVars>>

\* The linger time of one disconnect is over.
TimerFires(c) ==
    /\ c \in timers
    /\ timers' = timers \ {c}
    /\ \/ /\ Registered(at[c]) = {}
          /\ Decide(c)
          /\ joined' = [joined EXCEPT ![c] = {}]
       \/ /\ Registered(at[c]) # {}
          /\ UNCHANGED <<exiting, history>>
    /\ UNCHANGED <<proc, cfg, flock, sock, connVars>>

-----------------------------------------------------------------------------
(* Ending.                                                                 *)

Sigterm(d) ==
    /\ proc[d] = "serving"
    /\ exiting[d] = "no"
    /\ exiting' = [exiting EXCEPT ![d] = "term"]
    /\ UNCHANGED <<proc, cfg, flock, sock, connVars, timers, history>>

\* After `lock`: remove_file on the path, whoever's socket is there.
Unlink(d) ==
    /\ proc[d] = "serving"
    /\ exiting[d] \in {"last", "term"}
    /\ exiting' = [exiting EXCEPT ![d] = "unlinked"]
    /\ sock' = Nobody
    /\ UNCHANGED <<proc, cfg, flock, connVars, timers, history>>

Exit(d) ==
    /\ proc[d] = "serving"
    /\ exiting[d] = "unlinked"
    /\ Ends(d)
    /\ UNCHANGED sock

\* SIGKILL or a power cut: the socket file stays behind.
Kill(d) ==
    /\ proc[d] \in Alive
    /\ Ends(d)
    /\ UNCHANGED sock

Serve(d) == TakeFlock(d) \/ Defer(d) \/ ClearStale(d) \/ Bind(d)
            \/ Unlink(d) \/ Exit(d)
Handle(c) == Accept(c) \/ Respond(c) \/ Unregister(c) \/ Drained(c)
             \/ DrainedLast(c) \/ TimerFires(c)

Next ==
    \/ \E d \in Daemons : Spawn(d) \/ Serve(d) \/ BindFails(d) \/ Sigterm(d)
                          \/ Kill(d)
    \/ \E c \in Clients : Connect(c) \/ Request(c) \/ Close(c)
                          \/ WriterFails(c) \/ Handle(c)

Spec == Init /\ [][Next]_vars

\* The runtime runs every task, requests are answered in the end (UnlockGate)
\* and timers fire.  Nothing makes an editor connect or leave.
FairSpec ==
    /\ Spec
    /\ \A d \in Daemons : WF_vars(Serve(d))
    /\ \A c \in Clients : WF_vars(Handle(c))

-----------------------------------------------------------------------------
(* Properties.                                                             *)

\* Connections are to processes and end with them, a timer belongs to a
\* connection that is over, and a persistent process never sets one, nor
\* decides to exit by itself (server.rs:50-52).
TypeOK ==
    /\ proc \in [Daemons -> Alive \cup {"off", "gone"}]
    /\ flock \in Daemons \cup {Nobody}
    /\ sock \in Daemons \cup {Nobody}
    /\ cfg \in [Daemons -> Configs]
    /\ exiting \in [Daemons -> {"no", "last", "term", "unlinked"}]
    /\ conn \in [Clients -> {"none", "backlog", "open", "eof", "draining",
                            "over"}]
    /\ at \in [Clients -> Daemons \cup {Nobody}]
    /\ busy \in [Clients -> BOOLEAN]
    /\ writer \in [Clients -> BOOLEAN]
    /\ last \in [Clients -> BOOLEAN]
    /\ timers \subseteq Clients
    /\ joined \in [Clients -> SUBSET Clients]
    /\ cause \in [Daemons -> Clients \cup {Nobody}]
    /\ \A c \in Clients :
           /\ conn[c] = "none" <=> at[c] = Nobody
           /\ conn[c] \notin {"none", "over"} => proc[at[c]] = "serving"
           /\ busy[c] => at[c] # Nobody /\ proc[at[c]] = "serving"
    /\ \A c \in timers : /\ conn[c] = "over"
                         /\ proc[at[c]] = "serving"
                         /\ cfg[at[c]].lingers /\ ~cfg[at[c]].persist
    /\ \A d \in Daemons : exiting[d] = "last" => ~cfg[d].persist

\* main.rs:171-174: never "two agents both saving the same file".
OneAgent ==
    \A d, e \in Daemons : proc[d] \in Holding /\ proc[e] \in Holding => d = e

\* main.rs:172: a second daemon "must not unlink the FIRST (live) daemon's
\* socket", and neither must one that is on its way out: the path leads to
\* the serving process until that process itself removes it.
SocketOwned ==
    \A d \in Daemons :
        proc[d] = "serving" /\ exiting[d] # "unlinked" => sock = d

\* Why: the lock is held exactly by the process between `flock` and its end,
\* so that nobody else clears, binds or unlinks.
LockHeld == \A d \in Daemons : flock = d <=> proc[d] \in Holding

\* An agent that ends itself cuts off only clients that registered after the
\* count it acts on: unregister_client's, taken before `writer.await`, when
\* there is no linger time (main.rs:290-292), and client_count's when the
\* timer fires otherwise (main.rs:308), up to process::exit.  Whoever was
\* there when the clients were counted stays served, whatever disconnects,
\* awaited writers and timers overlap.
CutsOnlyNewcomers ==
    \A d \in Daemons :
        cause[d] # Nobody => Registered(d) \subseteq joined[cause[d]]

\* main.rs:253-255: "the wallet dies - and therefore locks - with the last
\* editor": after a disconnect the process ends, or has another client.
\* `persist` keeps it on purpose.
DiesWithLastEditor ==
    \A c \in Clients :
        conn[c] = "eof" /\ ~cfg[at[c]].persist
            ~> /\ conn[c] = "over"
               /\ proc[at[c]] = "gone" \/ Registered(at[c]) # {}
=============================================================================
