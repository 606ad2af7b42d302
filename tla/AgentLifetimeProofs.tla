------------------------ MODULE AgentLifetimeProofs ------------------------
(***************************************************************************)
(* One agent at a time, over its own socket, that cuts off only newcomers  *)
(* when it ends itself, for any number of processes, connections and       *)
(* settings.                                                               *)
(***************************************************************************)
EXTENDS AgentLifetime, TLAPS

USE ConfigsAssumption, NobodyAssumption

\* Nothing has been spawned or connected.
LEMMA InitType == Init => TypeOK
  BY DEF Init, TypeOK, Alive, Holding

\* The kernel's part of an exit keeps connections and timers with living
\* processes.
LEMMA EndsType ==
    ASSUME TypeOK, NEW d \in Daemons, Ends(d),
           sock' \in Daemons \cup {Nobody}
    PROVE  TypeOK'
<1> USE DEF TypeOK, Ends, Becomes, history
<1>1. /\ proc' \in [Daemons -> Alive \cup {"off", "gone"}]
      /\ flock' \in Daemons \cup {Nobody}
      /\ UNCHANGED <<cfg, exiting, at, writer, last, joined, cause>>
      /\ busy' \in [Clients -> BOOLEAN]
      /\ timers' \subseteq Clients
  OBVIOUS
<1>2. conn' \in [Clients -> {"none", "backlog", "open", "eof", "draining",
                            "over"}]
  OBVIOUS
<1>3. ASSUME NEW c \in Clients
      PROVE  /\ conn'[c] = "none" <=> at[c] = Nobody
             /\ conn'[c] \notin {"none", "over"} => proc'[at[c]] = "serving"
             /\ busy'[c] => at[c] # Nobody /\ proc'[at[c]] = "serving"
  <2>1. CASE at[c] = d
    BY <2>1
  <2>2. CASE at[c] # d
    <3>1. conn'[c] = conn[c] /\ busy'[c] = busy[c]
      BY <2>2
    <3>2. at[c] # Nobody => proc'[at[c]] = proc[at[c]]
      BY <2>2
    <3> QED BY <3>1, <3>2
  <2> QED BY <2>1, <2>2
<1>4. ASSUME NEW c \in timers'
      PROVE  /\ conn'[c] = "over" /\ proc'[at[c]] = "serving"
             /\ cfg[at[c]].lingers /\ ~cfg[at[c]].persist
  OBVIOUS
<1> QED BY <1>1, <1>2, <1>3, <1>4

\* A step of a process.
LEMMA DaemonType ==
    ASSUME TypeOK, NEW d \in Daemons,
           Spawn(d) \/ Serve(d) \/ BindFails(d) \/ Sigterm(d) \/ Kill(d)
    PROVE  TypeOK'
<1> USE DEF TypeOK, Alive, Holding, connVars, Becomes, history
<1>1. CASE Spawn(d)
  BY <1>1 DEF Spawn
<1>2. CASE TakeFlock(d)
  BY <1>2 DEF TakeFlock
<1>3. CASE Defer(d)
  BY <1>3, EndsType DEF Defer
<1>4. CASE ClearStale(d)
  BY <1>4 DEF ClearStale
<1>5. CASE Bind(d)
  BY <1>5 DEF Bind
<1>6. CASE BindFails(d)
  BY <1>6, EndsType DEF BindFails
<1>7. CASE Sigterm(d)
  BY <1>7 DEF Sigterm
<1>8. CASE Unlink(d)
  BY <1>8 DEF Unlink
<1>9. CASE Exit(d)
  BY <1>9, EndsType DEF Exit
<1>10. CASE Kill(d)
  BY <1>10, EndsType DEF Kill
<1> QED
  BY <1>1, <1>2, <1>3, <1>4, <1>5, <1>6, <1>7, <1>8, <1>9, <1>10 DEF Serve

\* A step of a connection's task, of its timer or of its client.
LEMMA ClientType ==
    ASSUME TypeOK, NEW c \in Clients,
           Connect(c) \/ Request(c) \/ Close(c) \/ WriterFails(c) \/ Handle(c)
    PROVE  TypeOK'
<1> USE DEF TypeOK, procVars, connVars, Moves, history
<1>1. CASE Connect(c)
  BY <1>1 DEF Connect
<1>2. CASE Request(c)
  BY <1>2 DEF Request
<1>3. CASE Close(c)
  BY <1>3 DEF Close
<1>4. CASE WriterFails(c)
  BY <1>4 DEF WriterFails
<1>5. CASE Accept(c)
  BY <1>5 DEF Accept
<1>6. CASE Respond(c)
  BY <1>6 DEF Respond
<1>7. CASE Unregister(c)
  BY <1>7 DEF Unregister
<1>8. CASE Drained(c)
  BY <1>8 DEF Drained, Awaited
<1>9. CASE DrainedLast(c)
  BY <1>9 DEF DrainedLast, Awaited, Decide
<1>10. CASE TimerFires(c)
  <2>1. c \in timers /\ at[c] \in Daemons /\ ~cfg[at[c]].persist
    BY <1>10 DEF TimerFires
  <2>2. UNCHANGED <<proc, cfg, flock, sock, conn, at, busy, writer, last>>
        /\ timers' = timers \ {c}
    BY <1>10 DEF TimerFires
  <2>3. UNCHANGED <<exiting, cause>> \/ Decide(c)
    BY <1>10 DEF TimerFires
  <2>4. joined' \in [Clients -> SUBSET Clients]
    <3>1. joined' = joined \/ joined' = [joined EXCEPT ![c] = {}]
      BY <1>10 DEF TimerFires
    <3> QED BY <3>1
  <2>5. cause' \in [Daemons -> Clients \cup {Nobody}]
    BY <2>1, <2>3 DEF Decide
  <2>6. /\ exiting' \in [Daemons -> {"no", "last", "term", "unlinked"}]
        /\ \A d \in Daemons : exiting'[d] = "last" => ~cfg[d].persist
    BY <2>1, <2>3 DEF Decide
  <2> QED BY <2>2, <2>4, <2>5, <2>6
<1> QED
  BY <1>1, <1>2, <1>3, <1>4, <1>5, <1>6, <1>7, <1>8, <1>9, <1>10 DEF Handle

LEMMA TypeStep == TypeOK /\ [Next]_vars => TypeOK'
<1>1. ASSUME TypeOK, UNCHANGED vars PROVE TypeOK'
  BY <1>1 DEF TypeOK, vars, procVars, connVars, history
<1> QED BY <1>1, DaemonType, ClientType DEF Next

\* main.rs:286-312, server.rs:50-52: a connection and its timer end with
\* their process, and a persistent process never sets a timer nor decides to
\* exit by itself.
THEOREM TypeCorrect == Spec => []TypeOK
  BY InitType, TypeStep, PTL DEF Spec

\* Who holds the lock is who is between `flock` and the end.
LEMMA LockStep == ASSUME TypeOK, LockHeld, [Next]_vars PROVE LockHeld'
<1> USE DEF TypeOK, LockHeld, Alive, Holding, Becomes
<1>1. ASSUME NEW d \in Daemons, Ends(d) PROVE LockHeld'
  BY <1>1 DEF Ends
<1>2. ASSUME NEW d \in Daemons, Spawn(d) PROVE LockHeld'
  BY <1>2 DEF Spawn
<1>3. ASSUME NEW d \in Daemons, TakeFlock(d) PROVE LockHeld'
  BY <1>3 DEF TakeFlock
<1>4. ASSUME NEW d \in Daemons, ClearStale(d) \/ Bind(d) PROVE LockHeld'
  BY <1>4 DEF ClearStale, Bind
<1>5. ASSUME UNCHANGED <<flock, proc>> PROVE LockHeld'
  BY <1>5
<1>6. ASSUME NEW d \in Daemons, Sigterm(d) \/ Unlink(d) PROVE LockHeld'
  BY <1>6, <1>5 DEF Sigterm, Unlink
<1>7. ASSUME NEW c \in Clients,
             Connect(c) \/ Request(c) \/ Close(c) \/ WriterFails(c) \/ Handle(c)
      PROVE  LockHeld'
  BY <1>7, <1>5
  DEF Connect, Request, Close, WriterFails, Handle, Accept, Respond,
      Unregister, Drained, DrainedLast, TimerFires, procVars
<1>8. ASSUME UNCHANGED vars PROVE LockHeld'
  BY <1>8, <1>5 DEF vars, procVars
<1> QED
  BY <1>1, <1>2, <1>3, <1>4, <1>6, <1>7, <1>8
  DEF Next, Serve, Defer, BindFails, Exit, Kill

\* The socket at the path is replaced by the holder of the lock only.
LEMMA SocketStep ==
    ASSUME TypeOK, LockHeld, SocketOwned, [Next]_vars PROVE SocketOwned'
<1> USE DEF TypeOK, LockHeld, SocketOwned, Alive, Holding, Becomes
<1>1. ASSUME NEW d \in Daemons, Ends(d), UNCHANGED sock PROVE SocketOwned'
  BY <1>1 DEF Ends
<1>2. ASSUME NEW d \in Daemons, Spawn(d) \/ TakeFlock(d) PROVE SocketOwned'
  BY <1>2 DEF Spawn, TakeFlock
<1>3. ASSUME NEW d \in Daemons, ClearStale(d) PROVE SocketOwned'
  BY <1>3 DEF ClearStale
<1>4. ASSUME NEW d \in Daemons, Bind(d) PROVE SocketOwned'
  BY <1>4 DEF Bind
<1>5. ASSUME NEW d \in Daemons, Sigterm(d) PROVE SocketOwned'
  BY <1>5 DEF Sigterm
<1>6. ASSUME NEW d \in Daemons, Unlink(d) PROVE SocketOwned'
  BY <1>6 DEF Unlink
<1>7. ASSUME UNCHANGED <<proc, sock>>,
             \A d \in Daemons : exiting[d] = "unlinked" => exiting'[d] = "unlinked"
      PROVE  SocketOwned'
  BY <1>7
<1>8. ASSUME NEW c \in Clients, DrainedLast(c) \/ TimerFires(c)
      PROVE  SocketOwned'
  BY <1>8, <1>7 DEF DrainedLast, TimerFires, Decide
<1>9. ASSUME NEW c \in Clients,
             Connect(c) \/ Request(c) \/ Close(c) \/ WriterFails(c)
             \/ Accept(c) \/ Respond(c) \/ Unregister(c) \/ Drained(c)
      PROVE  SocketOwned'
  BY <1>9, <1>7
  DEF Connect, Request, Close, WriterFails, Accept, Respond, Unregister,
      Drained, procVars
<1>10. ASSUME UNCHANGED vars PROVE SocketOwned'
  BY <1>10, <1>7 DEF vars, procVars
<1> QED
  BY <1>1, <1>2, <1>3, <1>4, <1>5, <1>6, <1>8, <1>9, <1>10
  DEF Next, Serve, Handle, Defer, BindFails, Exit, Kill

LEMMA Exclusive == Spec => [](TypeOK /\ LockHeld)
<1>1. Init => TypeOK /\ LockHeld
  BY InitType DEF Init, LockHeld, Holding
<1> QED BY <1>1, TypeStep, LockStep, PTL DEF Spec

\* main.rs:171-174: the flock lets one process at a time clear the path,
\* bind it and serve, however processes are spawned, killed and deferred.
THEOREM SingleAgent == Spec => []OneAgent
<1>1. TypeOK /\ LockHeld => OneAgent
  BY DEF TypeOK, LockHeld, OneAgent
<1> QED BY <1>1, Exclusive, PTL

\* main.rs:172: the socket path leads to the serving process until that
\* process removes it, whatever a killed one left and others try.
THEOREM SocketIsItsOwn == Spec => []SocketOwned
<1>1. Init => SocketOwned
  BY DEF Init, SocketOwned
<1> QED BY <1>1, Exclusive, SocketStep, PTL DEF Spec

-----------------------------------------------------------------------------
(* Whom an agent leaves.                                                   *)

\* While a connection that was the last one drains, whoever is registered
\* came after its count.
Settled ==
    \A c \in Clients : conn[c] = "draining" /\ last[c] =>
        Registered(at[c]) \subseteq joined[c]

\* The count that ends a process is of a connection it had.
Attributed ==
    \A d \in Daemons : cause[d] # Nobody =>
        at[cause[d]] = d /\ conn[cause[d]] = "over"

Newcomers == Settled /\ Attributed /\ CutsOnlyNewcomers

\* A step that counts nobody, registers nobody and decides nothing.
LEMMA NewcomersKept ==
    ASSUME TypeOK, Newcomers, UNCHANGED <<at, last, joined, cause>>,
           \A c \in Clients : \/ conn'[c] = conn[c]
                              \/ conn[c] = "open" /\ conn'[c] = "eof"
                              \/ conn'[c] = "over"
    PROVE  Newcomers'
<1>1. ASSUME NEW d PROVE Registered(d)' \subseteq Registered(d)
  BY DEF Registered
<1> QED BY <1>1 DEF TypeOK, Newcomers, Settled, Attributed, CutsOnlyNewcomers

LEMMA NewcomersStep ==
    ASSUME TypeOK, Newcomers, [Next]_vars PROVE Newcomers'
<1> USE DEF TypeOK, connVars, procVars, history, Moves
<1>1. ASSUME NEW d \in Daemons, Ends(d) PROVE Newcomers'
  BY <1>1, NewcomersKept DEF Ends
<1>2. ASSUME NEW d \in Daemons,
             \/ Spawn(d) \/ TakeFlock(d) \/ ClearStale(d) \/ Bind(d)
             \/ Sigterm(d) \/ Unlink(d)
      PROVE  Newcomers'
  BY <1>2, NewcomersKept DEF Spawn, TakeFlock, ClearStale, Bind, Sigterm, Unlink
<1>3. ASSUME NEW c \in Clients,
             Request(c) \/ Respond(c) \/ Close(c) \/ WriterFails(c) \/ Drained(c)
      PROVE  Newcomers'
  BY <1>3, NewcomersKept DEF Request, Respond, Close, WriterFails, Drained
<1>4. ASSUME UNCHANGED vars PROVE Newcomers'
  BY <1>4, NewcomersKept DEF vars
<1>5. ASSUME NEW c \in Clients, Connect(c) PROVE Newcomers'
  <2>1. /\ conn[c] = "none" /\ conn'[c] = "backlog"
        /\ \A x \in Clients \ {c} : conn'[x] = conn[x] /\ at'[x] = at[x]
        /\ UNCHANGED <<last, joined, cause>>
    BY <1>5 DEF Connect
  <2>2. ASSUME NEW d PROVE Registered(d)' = Registered(d)
    BY <2>1 DEF Registered
  <2> QED BY <2>1, <2>2 DEF Newcomers, Settled, Attributed, CutsOnlyNewcomers
<1>6. ASSUME NEW c \in Clients, Accept(c) PROVE Newcomers'
  <2>1. /\ conn[c] = "backlog" /\ conn'[c] = "open"
        /\ \A x \in Clients \ {c} : conn'[x] = conn[x]
        /\ UNCHANGED <<at, last, cause>>
        /\ \A x \in Clients : joined'[x] = IF at[x] = at[c]
                                          THEN joined[x] \cup {c} ELSE joined[x]
    BY <1>6 DEF Accept
  <2>2. ASSUME NEW d
        PROVE  Registered(d)' = IF d = at[c] THEN Registered(d) \cup {c}
                                ELSE Registered(d)
    BY <2>1 DEF Registered
  <2>3. ASSUME NEW x \in Clients, Registered(at[x]) \subseteq joined[x]
        PROVE  Registered(at[x])' \subseteq joined'[x]
    <3>1. Registered(at[x])' = IF at[x] = at[c] THEN Registered(at[x]) \cup {c}
                               ELSE Registered(at[x])
      BY <2>1, <2>2
    <3>2. joined'[x] = IF at[x] = at[c] THEN joined[x] \cup {c} ELSE joined[x]
      BY <2>1
    <3> QED BY <2>3, <3>1, <3>2
  <2>4. Settled'
    BY <2>1, <2>3 DEF Newcomers, Settled
  <2>5. Attributed'
    BY <2>1 DEF Newcomers, Attributed
  <2>6. CutsOnlyNewcomers'
    <3> SUFFICES ASSUME NEW d \in Daemons, cause'[d] # Nobody
                 PROVE  Registered(d)' \subseteq joined'[cause'[d]]
      BY DEF CutsOnlyNewcomers
    <3>1. /\ cause'[d] = cause[d] /\ cause[d] \in Clients /\ at[cause[d]] = d
          /\ Registered(d) \subseteq joined[cause[d]]
      BY <2>1 DEF Newcomers, Attributed, CutsOnlyNewcomers
    <3>2. at'[cause[d]] = d
      BY <2>1, <3>1
    <3> QED BY <2>3, <3>1, <3>2
  <2> QED BY <2>4, <2>5, <2>6 DEF Newcomers
<1>7. ASSUME NEW c \in Clients, Unregister(c) PROVE Newcomers'
  <2>1. /\ conn[c] = "eof" /\ conn'[c] = "draining"
        /\ last'[c] = (Registered(at[c]) = {c})
        /\ \A x \in Clients \ {c} : /\ conn'[x] = conn[x] /\ last'[x] = last[x]
                                    /\ joined'[x] = joined[x]
        /\ UNCHANGED <<at, cause>>
    BY <1>7 DEF Unregister
  <2>2. ASSUME NEW d PROVE Registered(d)' = Registered(d) \ {c}
    BY <2>1 DEF Registered
  <2>3. ASSUME NEW x \in Clients, conn'[x] = "draining", last'[x]
        PROVE  Registered(at[x])' \subseteq joined'[x]
    <3>1. Registered(at[x])' = Registered(at[x]) \ {c}
      BY <2>1, <2>2
    <3>2. CASE x = c
      BY <2>1, <2>3, <3>1, <3>2
    <3>3. CASE x # c
      BY <2>1, <2>3, <3>1, <3>3 DEF Newcomers, Settled
    <3> QED BY <3>2, <3>3
  <2>4. Settled'
    BY <2>3 DEF Settled
  <2> QED BY <2>1, <2>2, <2>4 DEF Newcomers, Attributed, CutsOnlyNewcomers
<1>8. ASSUME NEW c \in Clients, DrainedLast(c) PROVE Newcomers'
  <2>1. /\ conn[c] = "draining" /\ last[c] /\ conn'[c] = "over"
        /\ \A x \in Clients \ {c} : conn'[x] = conn[x]
        /\ UNCHANGED <<at, last, joined>>
        /\ cause' = cause \/ Decide(c)
    BY <1>8 DEF DrainedLast, Awaited
  <2>2. ASSUME NEW d PROVE Registered(d)' = Registered(d)
    BY <2>1 DEF Registered
  <2>3. \A d \in Daemons : \/ cause'[d] = cause[d]
                           \/ d = at[c] /\ cause'[d] = c
    BY <2>1 DEF Decide
  <2>4. Settled'
    BY <2>1, <2>2 DEF Newcomers, Settled
  <2>5. Attributed'
    BY <2>1, <2>3 DEF Newcomers, Attributed
  <2>6. CutsOnlyNewcomers'
    BY <2>1, <2>2, <2>3 DEF Newcomers, Settled, CutsOnlyNewcomers
  <2> QED BY <2>4, <2>5, <2>6 DEF Newcomers
<1>9. ASSUME NEW c \in Clients, TimerFires(c) PROVE Newcomers'
  <2>1. CASE UNCHANGED history
    BY <1>9, <2>1, NewcomersKept DEF TimerFires
  <2>2. CASE Registered(at[c]) = {} /\ Decide(c)
             /\ joined' = [joined EXCEPT ![c] = {}]
    <3>1. conn[c] = "over" /\ UNCHANGED <<conn, at, last>>
      BY <1>9 DEF TimerFires
    <3>2. ASSUME NEW d PROVE Registered(d)' = Registered(d)
      BY <3>1 DEF Registered
    <3>3. \A d \in Daemons : \/ cause'[d] = cause[d]
                             \/ d = at[c] /\ cause'[d] = c
      BY <2>2 DEF Decide
    <3>4. Settled'
      BY <2>2, <3>1, <3>2 DEF Newcomers, Settled
    <3>5. Attributed'
      BY <3>1, <3>3 DEF Newcomers, Attributed
    <3>6. CutsOnlyNewcomers'
      BY <2>2, <3>1, <3>2, <3>3 DEF Newcomers, Attributed, CutsOnlyNewcomers
    <3> QED BY <3>4, <3>5, <3>6 DEF Newcomers
  <2> QED BY <1>9, <2>1, <2>2 DEF TimerFires
<1> QED
  BY <1>1, <1>2, <1>3, <1>4, <1>5, <1>6, <1>7, <1>8, <1>9
  DEF Next, Serve, Handle, Defer, BindFails, Exit, Kill

\* main.rs:286-312: an agent that ends itself, with or without a linger time,
\* leaves nobody who was registered when it counted.
THEOREM NobodyLeftBehind == Spec => []CutsOnlyNewcomers
<1>1. Init => Newcomers
  BY DEF Init, Newcomers, Settled, Attributed, CutsOnlyNewcomers
<1>2. TypeOK /\ Newcomers /\ [Next]_vars => Newcomers'
  BY NewcomersStep
<1>3. Newcomers => CutsOnlyNewcomers
  BY DEF Newcomers
<1> QED BY <1>1, <1>2, <1>3, TypeCorrect, PTL DEF Spec
=============================================================================
