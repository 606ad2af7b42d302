---------------------------- MODULE EditorPrompt ----------------------------
(***************************************************************************)
(* The wallet inside the editors, lua/lvim-keyring/init.lua and            *)
(* ui/prompt.lua: the cached lock state, the prompt that a parked reader   *)
(* asks for, the password flows and the lock on exit, against the answers  *)
(* and broadcasts of one shared agent.                                     *)
(*                                                                         *)
(* An agent's request is three steps, as the code holds no mutex between   *)
(* them: it reads or replaces the session, broadcasts `vault.state`, and   *)
(* sends its answer.  A socket is a FIFO to its editor.  Connecting is     *)
(* ClientConn's subject and parking UnlockGate's: here a dial succeeds or  *)
(* fails, and of `wait_for_unlock` only the order of its signal, its look  *)
(* at the generation and what releases it is kept, for one reader at a     *)
(* time.  A password is good or bad, and two typed ones match or not.      *)
(***************************************************************************)
EXTENDS Naturals, Sequences, FiniteSets

CONSTANTS
    Editors,
    Flows,       \* prompts one editor can have open at once
    Signal,      \* the one of them that `vault.unlock_needed` opens
    MaxEvents,   \* bound: calls of the API, reads and auto-locks
    MaxDeaths    \* bound: how often the agent is killed

ASSUME PromptAssumption ==
    /\ Signal \in Flows /\ MaxEvents \in Nat /\ MaxDeaths \in Nat
    /\ Flows \cap {"hello", "lock", "cancel", "exit"} = {}

\* A request in flight is known by what will take its answer: a flow, or one
\* of the callers that have no flow.  Bound: each has one at a time.
Slots == Flows \cup {"hello", "lock", "cancel", "exit"}

VARIABLES
    ed,          \* each editor: off, up, leaving, gone
    unlocked,    \* the cache, init.lua:23
    prompting,   \* init.lua:27
    flow,        \* the stage of each prompt flow
    conn,        \* down, dialing, up (hello sent), ready
    reg,         \* the agent's client table
    inbox,       \* what the agent has sent and the editor not handled
    task,        \* each request: where it is, and its answer
    locked, exists,   \* the agent's session and vault file
    timer,       \* the idle timer: idle, or its lock is not announced yet
    reader,      \* a `secret.*` call: idle, signal (about to broadcast its
                 \* signal), capture (about to look at the generation), parked
    heard,       \* history: the editors its signal was sent to
    missed,      \* history: a window it fell into, see Prompted
    events, deaths,
    raced        \* history: the session changed while an earlier look at it
                 \* was still to be sent

editorVars == <<ed, unlocked, prompting, flow, conn>>
readVars == <<reader, heard, missed>>
agentVars == <<reg, locked, exists, timer, readVars, deaths, raced>>
vars == <<ed, unlocked, prompting, flow, conn, reg, inbox, task, locked,
          exists, timer, readVars, events, deaths, raced>>

Idle == [op |-> "none", pc |-> "none", good |-> FALSE]
State(l) == [kind |-> "state", locked |-> l]
Needed == [kind |-> "needed"]
\* A status tells both; any other answer tells whether it succeeded.
Status(s) ==
    [kind |-> "answer", to |-> s, locked |-> locked, exists |-> exists]
Done(s, ok) == [kind |-> "answer", to |-> s, ok |-> ok]

Asking == {"new", "confirm", "ask", "old", "next", "again"}
Waiting == {"ensure", "status", "creating", "unlocking", "rotating"}

\* The agent may be there before, unlocked by another client.
Init ==
    /\ ed = [e \in Editors |-> "off"]
    /\ unlocked = [e \in Editors |-> FALSE]
    /\ prompting = [e \in Editors |-> FALSE]
    /\ flow = [e \in Editors |-> [f \in Flows |-> "none"]]
    /\ conn = [e \in Editors |-> "down"]
    /\ reg = {}
    /\ inbox = [e \in Editors |-> <<>>]
    /\ task = [e \in Editors |-> [s \in Slots |-> Idle]]
    /\ exists \in BOOLEAN
    /\ locked \in {TRUE, ~exists}
    /\ timer = "idle" /\ reader = "idle" /\ heard = {} /\ missed = FALSE
    /\ events = 0 /\ deaths = 0 /\ raced = FALSE

Event == events < MaxEvents /\ events' = events + 1

-----------------------------------------------------------------------------
(* `daemon.request`.                                                       *)

\* A request starts at once on a live connection, is lost on a dead one that
\* has not been noticed, and waits for the handshake without one.
Sent(e, op, good) ==
    [op |-> op, good |-> good,
     pc |-> IF conn[e] # "ready" THEN "waiter"
            ELSE IF e \in reg THEN "run" ELSE "lost"]
Dialled(e) == IF conn[e] = "down" THEN [conn EXCEPT ![e] = "dialing"] ELSE conn

Request(e, s, op, good) ==
    /\ task' = [task EXCEPT ![e][s] = Sent(e, op, good)]
    /\ conn' = Dialled(e)
NoRequest == UNCHANGED <<task, conn>>

\* Variant: a failed flow leaves the flag set.
FinishStuck(e, f, ok) ==
    /\ flow' = [flow EXCEPT ![e][f] = "none"]
    /\ prompting' = [prompting EXCEPT ![e] = @ /\ ~(f = Signal /\ ok)]
    /\ IF f = Signal /\ ~ok THEN Request(e, "cancel", "cancel", FALSE)
       ELSE NoRequest

\* Variant: a dismissed prompt releases nobody.
FinishSilent(e, f, ok) ==
    /\ flow' = [flow EXCEPT ![e][f] = "none"]
    /\ prompting' = [prompting EXCEPT ![e] = @ /\ f # Signal]
    /\ NoRequest

\* A flow calls back.  The signal's callback clears the flag and, without
\* success, releases the parked readers (a second cancel is like the first).
Finish(e, f, ok) ==
    /\ flow' = [flow EXCEPT ![e][f] = "none"]
    /\ prompting' = [prompting EXCEPT ![e] = @ /\ f # Signal]
    /\ IF f = Signal /\ ~ok THEN Request(e, "cancel", "cancel", FALSE)
       ELSE NoRequest

Goto(e, f, stage) ==
    /\ flow' = [flow EXCEPT ![e][f] = stage]
    /\ UNCHANGED prompting

-----------------------------------------------------------------------------
(* The API, and the user at the prompts.                                   *)

\* `setup` connects eagerly.
Setup(e) ==
    /\ ed[e] = "off"
    /\ ed' = [ed EXCEPT ![e] = "up"]
    /\ conn' = [conn EXCEPT ![e] = "dialing"]
    /\ UNCHANGED <<unlocked, prompting, flow, inbox, task, agentVars, events>>

Free(e, f) == ed[e] = "up" /\ f # Signal /\ flow[e][f] = "none"

\* `ensure_unlocked` and `unlock` ask for the status first.
Open(e, f, stage) ==
    /\ Free(e, f)
    /\ Event
    /\ stage \in {"ensure", "status"}
    /\ Goto(e, f, stage)
    /\ Request(e, f, "status", FALSE)
    /\ UNCHANGED <<ed, unlocked, inbox, agentVars>>

OpenRotate(e, f) ==
    /\ Free(e, f)
    /\ Event
    /\ Goto(e, f, "old")
    /\ NoRequest
    /\ UNCHANGED <<ed, unlocked, inbox, agentVars>>

LockCall(e) ==
    /\ ed[e] = "up"
    /\ task[e]["lock"] = Idle
    /\ Event
    /\ Request(e, "lock", "lock", FALSE)
    /\ UNCHANGED <<ed, unlocked, prompting, flow, inbox, agentVars>>

Cancel(e, f) ==
    /\ ed[e] = "up"
    /\ flow[e][f] \in Asking
    /\ Finish(e, f, FALSE)
    /\ UNCHANGED <<ed, unlocked, inbox, agentVars, events>>

\* The next input of the same flow; a create whose inputs differ begins again.
Type(e, f) ==
    /\ ed[e] = "up"
    /\ \/ flow[e][f] = "new" /\ Goto(e, f, "confirm")
       \/ flow[e][f] = "confirm" /\ Goto(e, f, "new")
       \/ flow[e][f] = "old" /\ Goto(e, f, "next")
       \/ flow[e][f] = "next" /\ Goto(e, f, "again")
    /\ NoRequest
    /\ UNCHANGED <<ed, unlocked, inbox, agentVars, events>>

\* A rotate whose inputs differ gives up.
RotateMismatch(e, f) ==
    /\ ed[e] = "up"
    /\ flow[e][f] = "again"
    /\ Finish(e, f, FALSE)
    /\ UNCHANGED <<ed, unlocked, inbox, agentVars, events>>

\* The last input: the request is sent.
Submit(e, f, good) ==
    /\ ed[e] = "up"
    /\ \/ /\ flow[e][f] = "confirm"
          /\ Goto(e, f, "creating")
          /\ Request(e, f, "create", good)
       \/ /\ flow[e][f] = "ask"
          /\ Goto(e, f, "unlocking")
          /\ Request(e, f, "unlock", good)
       \/ /\ flow[e][f] = "again"
          /\ Goto(e, f, "rotating")
          /\ Request(e, f, "rotate", good)
    /\ UNCHANGED <<ed, unlocked, inbox, agentVars, events>>

\* Variant: the agent's client table keeps it.
LeavesRegistered(e) ==
    /\ ed' = [ed EXCEPT ![e] = "gone"]
    /\ conn' = [conn EXCEPT ![e] = "down"]
    /\ flow' = [flow EXCEPT ![e] = [f \in Flows |-> "none"]]
    /\ prompting' = [prompting EXCEPT ![e] = FALSE]
    /\ UNCHANGED <<inbox, reg, task>>

\* The process ends; what the agent has of its requests goes on.
Leaves(e) ==
    /\ ed' = [ed EXCEPT ![e] = "gone"]
    /\ conn' = [conn EXCEPT ![e] = "down"]
    /\ flow' = [flow EXCEPT ![e] = [f \in Flows |-> "none"]]
    /\ prompting' = [prompting EXCEPT ![e] = FALSE]
    /\ inbox' = [inbox EXCEPT ![e] = <<>>]
    /\ reg' = reg \ {e}
    /\ task' = [task EXCEPT ![e] = [s \in Slots |->
                   IF task[e][s].pc \in {"waiter", "lost"} THEN Idle
                   ELSE task[e][s]]]

\* VimLeavePre: nothing to lock, as far as the editor knows.
ExitUnlocked(e) ==
    /\ ed[e] = "up"
    /\ ~(conn[e] = "ready" /\ unlocked[e])
    /\ Leaves(e)
    /\ UNCHANGED <<unlocked, locked, exists, timer, readVars, deaths, raced,
                   events>>

\* Or a lock is sent, and the loop is pumped until it is answered.
ExitLocks(e) ==
    /\ ed[e] = "up"
    /\ conn[e] = "ready" /\ unlocked[e]
    /\ ed' = [ed EXCEPT ![e] = "leaving"]
    /\ Request(e, "exit", "lock", FALSE)
    /\ UNCHANGED <<unlocked, prompting, flow, inbox, agentVars, events>>

\* One second has passed.
ExitTimeout(e) ==
    /\ ed[e] = "leaving"
    /\ Leaves(e)
    /\ UNCHANGED <<unlocked, locked, exists, timer, readVars, deaths, raced,
                   events>>

-----------------------------------------------------------------------------
(* What the editor does with a message.                                    *)

Takes(e, k) ==
    /\ ed[e] \in {"up", "leaving"}
    /\ inbox[e] # <<>>
    /\ Head(inbox[e]).kind = k

Pop(e) == inbox' = [inbox EXCEPT ![e] = Tail(@)]

OnState(e) ==
    /\ Takes(e, "state")
    /\ Pop(e)
    /\ unlocked' = [unlocked EXCEPT ![e] = ~Head(inbox[e]).locked]
    /\ UNCHANGED <<ed, prompting, flow, conn, task, agentVars, events>>

\* The wallet prompts, unless it does already or takes the vault for unlocked.
OnNeeded(e) ==
    /\ Takes(e, "needed")
    /\ Pop(e)
    /\ \/ /\ prompting[e] \/ unlocked[e]
          /\ UNCHANGED <<prompting, flow>>
          /\ NoRequest
       \/ /\ ~(prompting[e] \/ unlocked[e])
          /\ prompting' = [prompting EXCEPT ![e] = TRUE]
          /\ flow' = [flow EXCEPT ![e][Signal] = "status"]
          /\ Request(e, Signal, "status", FALSE)
    /\ UNCHANGED <<ed, unlocked, agentVars, events>>

\* The handshake is done: the cache is seeded, the waiters are sent.
OnHello(e) ==
    /\ Takes(e, "answer")
    /\ Head(inbox[e]).to = "hello"
    /\ Pop(e)
    /\ conn' = [conn EXCEPT ![e] = "ready"]
    /\ unlocked' = [unlocked EXCEPT ![e] = ~Head(inbox[e]).locked]
    /\ task' = [task EXCEPT ![e] = [s \in Slots |->
                   IF task[e][s].pc # "waiter" THEN task[e][s]
                   ELSE [task[e][s] EXCEPT !.pc = IF e \in reg THEN "run"
                                                  ELSE "lost"]]]
    /\ UNCHANGED <<ed, prompting, flow, agentVars, events>>

OnExitAnswer(e) ==
    /\ Takes(e, "answer")
    /\ Head(inbox[e]).to = "exit"
    /\ Leaves(e)
    /\ UNCHANGED <<unlocked, locked, exists, timer, readVars, deaths, raced,
                   events>>

\* `ensure_unlocked` has the status, which `M.status` caches: unlocked, or on
\* to the prompt, which asks for the status again.
OnEnsureAnswer(e) ==
    /\ Takes(e, "answer")
    /\ LET m == Head(inbox[e])
           f == m.to
       IN  /\ f \in Flows
           /\ flow[e][f] = "ensure"
           /\ unlocked' = [unlocked EXCEPT ![e] = ~m.locked]
           /\ \/ /\ m.locked
                 /\ Goto(e, f, "status")
                 /\ Request(e, f, "status", FALSE)
              \/ ~m.locked /\ Finish(e, f, TRUE)
    /\ Pop(e)
    /\ UNCHANGED <<ed, agentVars, events>>

\* The answer to a prompt: the status decides between create and unlock, a
\* wrong password is asked for again, the rest ends the flow.
OnPromptAnswer(e) ==
    /\ Takes(e, "answer")
    /\ LET m == Head(inbox[e])
           f == m.to
       IN  /\ f \in Flows
           /\ \/ /\ flow[e][f] = "status"
                 /\ Goto(e, f, IF m.exists THEN "ask" ELSE "new")
                 /\ NoRequest
              \/ /\ flow[e][f] = "unlocking" /\ ~m.ok
                 /\ Goto(e, f, "ask")
                 /\ NoRequest
              \/ /\ \/ flow[e][f] \in {"creating", "rotating"}
                    \/ flow[e][f] = "unlocking" /\ m.ok
                 /\ Finish(e, f, m.ok)
    /\ Pop(e)
    /\ UNCHANGED <<ed, unlocked, agentVars, events>>

\* `teardown` fails every open request: an unlock prompts again, the other
\* flows end, and the signal's cancel, sent from inside it, dials again.
Teardown(e) ==
    LET Ends == {"ensure", "status", "creating", "rotating"}
        cancels == flow[e][Signal] \in Ends
    IN  /\ flow' = [flow EXCEPT ![e] = [f \in Flows |->
               CASE flow[e][f] \in Ends -> "none"
                 [] flow[e][f] = "unlocking" -> "ask"
                 [] OTHER -> flow[e][f]]]
        /\ prompting' = [prompting EXCEPT ![e] = @ /\ ~cancels]
        /\ conn' = [conn EXCEPT ![e] = IF cancels THEN "dialing" ELSE "down"]
        /\ UNCHANGED <<unlocked, inbox, agentVars, events>>

\* Variant: the open requests are not failed.
OnEofForgets(e) ==
    /\ ed[e] = "up"
    /\ conn[e] \in {"up", "ready"} /\ e \notin reg /\ inbox[e] = <<>>
    /\ conn' = [conn EXCEPT ![e] = "down"]
    /\ task' = [task EXCEPT ![e] = [s \in Slots |-> Idle]]
    /\ UNCHANGED <<ed, unlocked, prompting, flow, inbox, agentVars, events>>

\* The end of the stream; a cancel sent meanwhile is failed as well.
OnEof(e) ==
    /\ ed[e] = "up"
    /\ conn[e] \in {"up", "ready"} /\ e \notin reg /\ inbox[e] = <<>>
    /\ Teardown(e)
    /\ task' = [task EXCEPT ![e] = [s \in Slots |-> Idle]]
    /\ UNCHANGED ed

\* The exit's request is failed too, and the editor leaves.
OnEofLeaving(e) ==
    /\ ed[e] = "leaving"
    /\ conn[e] \in {"up", "ready"} /\ e \notin reg /\ inbox[e] = <<>>
    /\ Leaves(e)
    /\ UNCHANGED <<unlocked, locked, exists, timer, readVars, deaths, raced,
                   events>>

Connect(e) ==
    /\ conn[e] = "dialing"
    /\ conn' = [conn EXCEPT ![e] = "up"]
    /\ reg' = reg \cup {e}
    /\ task' = [task EXCEPT ![e]["hello"] =
                   [op |-> "status", pc |-> "run", good |-> FALSE]]
    /\ UNCHANGED <<ed, unlocked, prompting, flow, inbox, locked, exists, timer,
                   readVars, deaths, raced, events>>

\* No agent could be reached; a cancel sent meanwhile waits for the next dial.
ConnectFails(e) ==
    /\ conn[e] = "dialing"
    /\ Teardown(e)
    /\ task' = [task EXCEPT ![e] = [s \in Slots |->
                   IF s = "cancel" /\ conn'[e] = "dialing"
                   THEN Sent(e, "cancel", FALSE) ELSE Idle]]
    /\ UNCHANGED ed

Receive(e) ==
    \/ OnState(e)
    \/ OnNeeded(e)
    \/ OnHello(e)
    \/ OnExitAnswer(e)
    \/ OnEnsureAnswer(e)
    \/ OnPromptAnswer(e)
    \/ OnEof(e)
    \/ OnEofLeaving(e)

-----------------------------------------------------------------------------
(* The agent.                                                              *)

Announcing ==
    timer = "announce" \/ \E e \in Editors, s \in Slots :
                              task[e][s].pc = "announce"

\* A look at the session that has not been sent yet.
Unsent ==
    \/ Announcing
    \/ \E e \in Editors, s \in Slots :
           task[e][s].pc = "reply" /\ task[e][s].op = "status"

\* The reader is answered.
Released == reader' = "idle" /\ heard' = {} /\ UNCHANGED missed

\* The session is replaced or dropped; an unlock releases the parked reader.
SetLocked(l) ==
    /\ locked' = l
    /\ raced' = (raced \/ (l # locked /\ Unsent))
    /\ IF reader = "parked" /\ ~l THEN Released
       ELSE /\ missed' = (missed \/ (reader = "capture" /\ l))
            /\ UNCHANGED <<reader, heard>>

Broadcast(m) ==
    inbox' = [e \in Editors |-> IF e \in reg THEN Append(inbox[e], m)
                                ELSE inbox[e]]

\* The handler has its result and goes on at pc.
Result(e, s, pc, a) ==
    task' = [task EXCEPT ![e][s] = [op |-> task[e][s].op, pc |-> pc,
                                    answer |-> a]]

Runs(e, s, ops) == task[e][s].pc = "run" /\ task[e][s].op \in ops

\* `status` and `hello`.
RunStatus(e, s) ==
    /\ Runs(e, s, {"status"})
    /\ Result(e, s, "reply", Status(s))
    /\ UNCHANGED <<editorVars, inbox, agentVars, events>>

\* `create`, `unlock` and `rotate` install a session.
RunInstall(e, s) ==
    /\ \/ Runs(e, s, {"create"}) /\ ~exists
       \/ Runs(e, s, {"unlock", "rotate"}) /\ exists /\ task[e][s].good
    /\ SetLocked(FALSE)
    /\ exists' = TRUE
    /\ Result(e, s, "announce", Done(s, TRUE))
    /\ UNCHANGED <<editorVars, inbox, reg, timer, deaths, events>>

\* The vault exists or does not, or the password is wrong.
RunFails(e, s) ==
    /\ \/ Runs(e, s, {"create"}) /\ exists
       \/ Runs(e, s, {"unlock", "rotate"}) /\ ~(exists /\ task[e][s].good)
    /\ Result(e, s, "reply", Done(s, FALSE))
    /\ UNCHANGED <<editorVars, inbox, agentVars, events>>

\* Variant: nobody is told.
RunLockSilent(e, s) ==
    /\ Runs(e, s, {"lock"})
    /\ SetLocked(TRUE)
    /\ Result(e, s, "reply", Done(s, TRUE))
    /\ UNCHANGED <<editorVars, inbox, reg, exists, timer, deaths, events>>

\* `do_lock` announces a real change only.
RunLock(e, s) ==
    /\ Runs(e, s, {"lock"})
    /\ SetLocked(TRUE)
    /\ Result(e, s, IF locked THEN "reply" ELSE "announce", Done(s, TRUE))
    /\ UNCHANGED <<editorVars, inbox, reg, exists, timer, deaths, events>>

\* A reader that has not looked at the generation yet takes the cancel for
\* an earlier one.
RunCancel(e, s) ==
    /\ Runs(e, s, {"cancel"})
    /\ task' = [task EXCEPT ![e][s] = Idle]
    /\ IF reader = "parked" THEN Released
       ELSE /\ missed' = (missed \/ reader = "capture")
            /\ UNCHANGED <<reader, heard>>
    /\ UNCHANGED <<editorVars, inbox, reg, locked, exists, timer, deaths, raced,
                   events>>

\* `broadcast_state`, with what this request did.
Announce(e, s) ==
    /\ task[e][s].pc = "announce"
    /\ Broadcast(State(task[e][s].op = "lock"))
    /\ task' = [task EXCEPT ![e][s].pc = "reply"]
    /\ UNCHANGED <<editorVars, agentVars, events>>

\* The callers of `lock` and of the cancel ignore the answer.
Reply(e, s) ==
    /\ task[e][s].pc = "reply"
    /\ inbox' = IF e \in reg /\ s # "lock"
                THEN [inbox EXCEPT ![e] = Append(@, task[e][s].answer)]
                ELSE inbox
    /\ task' = [task EXCEPT ![e][s] = Idle]
    /\ UNCHANGED <<editorVars, agentVars, events>>

\* `autolock_tick`: the lock, then the announcement.
AutoLock ==
    /\ timer = "idle"
    /\ ~locked
    /\ Event
    /\ SetLocked(TRUE)
    /\ timer' = "announce"
    /\ UNCHANGED <<editorVars, inbox, task, reg, exists, deaths>>

AutoAnnounce ==
    /\ timer = "announce"
    /\ Broadcast(State(TRUE))
    /\ timer' = "idle"
    /\ UNCHANGED <<editorVars, task, reg, locked, exists, readVars, deaths,
                   raced, events>>

\* A `secret.*` call finds the vault locked, and then signals.
Read ==
    /\ reader = "idle"
    /\ locked
    /\ Event
    /\ reader' = "signal" /\ missed' = FALSE
    /\ UNCHANGED <<editorVars, inbox, task, reg, locked, exists, timer, heard,
                   deaths, raced>>

\* A prompt whose password was right and whose editor does not know it yet.
Succeeding ==
    \E e \in Editors : /\ task[e][Signal].pc = "reply"
                       /\ task[e][Signal].answer = Done(Signal, TRUE)

ReadSignals ==
    /\ reader = "signal"
    /\ Broadcast(Needed)
    /\ reader' = "capture"
    /\ heard' = {e \in reg : conn[e] = "ready"}
    /\ missed' = (Announcing \/ Succeeding)
    /\ UNCHANGED <<editorVars, task, reg, locked, exists, timer, deaths, raced,
                   events>>

\* It takes the generation and looks at the session again.
ReadParks ==
    /\ reader = "capture"
    /\ IF locked THEN reader' = "parked" /\ UNCHANGED <<heard, missed>>
       ELSE Released
    /\ UNCHANGED <<editorVars, inbox, task, reg, locked, exists, timer, deaths,
                   raced, events>>

\* The deadline.
ReadGivesUp ==
    /\ reader = "parked"
    /\ Released
    /\ UNCHANGED <<editorVars, inbox, task, reg, locked, exists, timer, deaths,
                   raced, events>>

\* The process is killed.  The next one starts locked when somebody dials.
AgentDies ==
    /\ deaths < MaxDeaths
    /\ deaths' = deaths + 1
    /\ reg # {}
    /\ locked' = TRUE
    /\ timer' = "idle" /\ Released
    /\ reg' = {}
    /\ task' = [e \in Editors |-> [s \in Slots |->
                   IF task[e][s].pc \notin {"run", "announce", "reply"}
                   THEN task[e][s]
                   ELSE [Idle EXCEPT !.pc = IF e \in reg THEN "lost"
                                            ELSE "none"]]]
    /\ UNCHANGED <<editorVars, inbox, exists, raced, events>>

Serve(e, s) ==
    \/ RunStatus(e, s)
    \/ RunInstall(e, s)
    \/ RunFails(e, s)
    \/ RunLock(e, s)
    \/ RunCancel(e, s)
    \/ Announce(e, s)
    \/ Reply(e, s)

Next ==
    \/ \E e \in Editors :
           \/ Setup(e)
           \/ \E f \in Flows :
                  \/ \E stage \in {"ensure", "status"} : Open(e, f, stage)
                  \/ OpenRotate(e, f)
                  \/ Cancel(e, f)
                  \/ Type(e, f)
                  \/ RotateMismatch(e, f)
                  \/ \E good \in BOOLEAN : Submit(e, f, good)
           \/ LockCall(e)
           \/ ExitUnlocked(e) \/ ExitLocks(e) \/ ExitTimeout(e)
           \/ Receive(e)
           \/ Connect(e) \/ ConnectFails(e)
           \/ \E s \in Slots : Serve(e, s)
    \/ AutoLock \/ AutoAnnounce
    \/ Read \/ ReadSignals \/ ReadParks \/ ReadGivesUp
    \/ AgentDies

Spec == Init /\ [][Next]_vars

\* The event loop and the agent's threads run, and a dial is decided.  The
\* user need not type, lock or leave.
FairSpec ==
    /\ Spec
    /\ \A e \in Editors :
           /\ WF_vars(Receive(e))
           /\ WF_vars(Connect(e) \/ ConnectFails(e))
           /\ \A s \in Slots : WF_vars(Serve(e, s))

-----------------------------------------------------------------------------
(* Properties.                                                             *)

Answers == [kind : {"answer"}, to : Slots, locked : BOOLEAN, exists : BOOLEAN]
               \cup [kind : {"answer"}, to : Slots, ok : BOOLEAN]
Messages == Answers \cup [kind : {"state"}, locked : BOOLEAN] \cup {Needed}
Ops == {"none", "status", "create", "unlock", "rotate", "lock", "cancel"}
Tasks == [op : Ops, pc : {"none", "waiter", "run", "lost"}, good : BOOLEAN]
             \cup [op : Ops, pc : {"announce", "reply"}, answer : Answers]

EditorTypes ==
    /\ ed \in [Editors -> {"off", "up", "leaving", "gone"}]
    /\ unlocked \in [Editors -> BOOLEAN]
    /\ prompting \in [Editors -> BOOLEAN]
    /\ flow \in [Editors -> [Flows -> Asking \cup Waiting \cup {"none"}]]
    /\ conn \in [Editors -> {"down", "dialing", "up", "ready"}]
    /\ \A e \in Editors : ed[e] \in {"off", "gone"} => conn[e] = "down"
    /\ events \in 0..MaxEvents

AgentTypes ==
    /\ reg \subseteq Editors
    /\ locked \in BOOLEAN /\ exists \in BOOLEAN /\ raced \in BOOLEAN
    /\ timer \in {"idle", "announce"}
    /\ reader \in {"idle", "signal", "capture", "parked"}
    /\ heard \subseteq Editors /\ missed \in BOOLEAN
    /\ deaths \in 0..MaxDeaths

\* The agent's client table holds live connections only, a connection that is
\* not up has nothing in store, and only an existing vault is unlocked.
TypeOK ==
    /\ EditorTypes /\ AgentTypes
    /\ inbox \in [Editors -> Seq(Messages)]
    /\ task \in [Editors -> [Slots -> Tasks]]
    /\ \A e \in Editors : conn[e] \in {"down", "dialing"} =>
                              e \notin reg /\ inbox[e] = <<>>
    /\ ~locked => exists

\* init.lua:27, 46-56: the flag is set exactly while the signal's prompt is
\* alive.  A flag left behind by a failed request, a lost agent or a
\* dismissed prompt would keep this editor from ever prompting again.
PromptingAlive == \A e \in Editors : prompting[e] <=> flow[e][Signal] # "none"

\* Messages that set the cache: broadcasts, the handshake, `M.status`.
Sets(e, m) ==
    \/ m.kind = "state"
    \/ m.kind = "answer" /\ m.to = "hello"
    \/ /\ m.kind = "answer" /\ m.to \in Flows
       /\ flow[e][m.to] = "ensure"

\* The cache is v once n messages have been handled.
Shows(e, n, v) ==
    \/ /\ \A i \in 1..n : ~Sets(e, inbox[e][i])
       /\ unlocked[e] = v
    \/ \E i \in 1..n : /\ Sets(e, inbox[e][i])
                       /\ inbox[e][i].locked = ~v
                       /\ \A j \in (i + 1)..n : ~Sets(e, inbox[e][j])

\* init.lua:22: the cache is "event-refreshed via the vault.state
\* notification".  A connected editor's cache becomes the agent's lock state
\* when the inbox is handled, through unlocks and locks of any client, the
\* idle timer, reconnects and restarts of the agent, as long as the session
\* did not change between a request's look at it and the message about it.
CacheFollows ==
    ~raced /\ ~Announcing =>
        \A e \in reg : conn[e] = "ready" => Shows(e, Len(inbox[e]), ~locked)

\* init.lua:42-44: the agent "PARKS a locked secret read and signals here",
\* the wallet prompts, and on cancel the readers are released.  No reader is
\* parked while every editor its signal was sent to has forgotten about it:
\* each still has to handle the signal, has a prompt open, or has a cancel
\* on its way, through dismissed prompts, wrong passwords, locks and deaths
\* of the agent.  Not when the signal falls between a change of the session
\* and the message about it, or between a prompt's success and the answer,
\* nor when a cancel or a lock falls between the signal and the look at the
\* generation.
Prompted ==
    reader = "parked" /\ ~missed /\ ~raced =>
        \A e \in heard \cap reg :
            \/ \E i \in 1..Len(inbox[e]) : inbox[e][i] = Needed
            \/ prompting[e]
            \/ task[e]["cancel"] # Idle

\* ui/prompt.lua: a flow that waits for the agent is called back, also when
\* the agent dies under it or cannot be reached.
FlowMoves ==
    \A e \in Editors, f \in Flows :
        flow[e][f] \in Waiting ~> flow[e][f] \notin Waiting
=============================================================================
