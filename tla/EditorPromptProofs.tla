------------------------- MODULE EditorPromptProofs -------------------------
(***************************************************************************)
(* The editor's cache, its prompts and the parked reader, for any editors, *)
(* any flows and any number of events and deaths of the agent.             *)
(***************************************************************************)
EXTENDS EditorPrompt, TLAPS

-----------------------------------------------------------------------------
(* The inductive invariant.                                                *)

Looks == {"ensure", "status"}
Outcomes(s) == {Done(s, TRUE), Done(s, FALSE)}
Replies(m, s) == m.kind = "answer" /\ m.to = s

\* What a handler has for its answer, by its operation.
Holds(t, s) ==
    /\ t.pc = "none" => t = Idle
    /\ t.op \in {"lock", "cancel"} => s \notin Flows
    /\ t.pc \in {"announce", "reply"} =>
           /\ t.op # "none" /\ Replies(t.answer, s)
           /\ IF t.op = "status"
              THEN t.pc = "reply" /\ t.answer \notin Outcomes(s)
              ELSE t.answer \in Outcomes(s)
Handled == \A e \in Editors, s \in Slots : Holds(task[e][s], s)

\* A flow that waits has one request, in the agent or answered, of the kind
\* its stage is for; one that does not wait has none.
Answered(e, f) == \E i \in 1..Len(inbox[e]) : Replies(inbox[e][i], f)
Flight(e, f) ==
    /\ flow[e][f] \notin Waiting => task[e][f] = Idle
    /\ Answered(e, f) => flow[e][f] \in Waiting /\ task[e][f] = Idle
    /\ \A i, j \in 1..Len(inbox[e]) :
           Replies(inbox[e][i], f) /\ Replies(inbox[e][j], f) => i = j
    /\ task[e][f].pc \notin {"none", "lost"} =>
           (task[e][f].op = "status" <=> flow[e][f] \in Looks)
    /\ \A i \in 1..Len(inbox[e]) :
           Replies(inbox[e][i], f) /\ flow[e][f] \notin Looks
               => inbox[e][i] \in Outcomes(f)
Flights ==
    \A e \in Editors : ed[e] # "gone" =>
        /\ flow[e][Signal] # "ensure"
        /\ \A f \in Flows : Flight(e, f)

\* The requests without a flow, and no agent works for an editor that is there
\* and not in its client table.
Caller(e) ==
    /\ task[e]["hello"].op \in {"none", "status"}
    /\ task[e]["cancel"].op \in {"none", "cancel"}
    /\ task[e]["cancel"].pc \notin {"announce", "reply"}
    /\ ed[e] \in {"off", "up"} => task[e]["exit"] = Idle
    /\ ed[e] # "gone" /\ e \notin reg =>
           \A s \in Slots : task[e][s].pc \notin {"run", "announce", "reply"}
Callers == \A e \in Editors : Caller(e)

\* Without a race what is to be announced or answered is still the case.
Truthful == ~raced =>
    /\ timer = "announce" => locked
    /\ \A e \in Editors, s \in Slots :
           LET t == task[e][s] IN
           /\ t.pc = "announce" => (t.op = "lock" <=> locked)
           /\ t.pc = "reply" /\ t.op = "status" => t.answer.locked = locked

\* CacheFollows, from the handshake's answer on.
Seeded(e) == conn[e] = "ready" \/ Answered(e, "hello")
Cached == ~raced /\ ~Announcing =>
    \A e \in reg : Seeded(e) => Shows(e, Len(inbox[e]), ~locked)

\* Who heard the signal is connected or gone, and a parked reader's vault is
\* locked.
Listening ==
    /\ \A e \in heard : e \in reg \/ ed[e] = "gone"
    /\ reader = "parked" => locked

\* The prompt's password was right, and the answer is to be sent.
Won(e) ==
    LET t == task[e][Signal] IN
    t.pc \in {"announce", "reply"} /\ t.answer = Done(Signal, TRUE)

\* The editor will cancel, or prompts, or will when it comes to the signal;
\* and no success is on its way that would end the prompt.
Waits(e) ==
    \/ task[e]["cancel"] # Idle
    \/ /\ ~Won(e)
       /\ \E k \in 0..Len(inbox[e]) :
              /\ IF k = 0 THEN prompting[e]
                 ELSE inbox[e][k] = Needed /\ Shows(e, k - 1, FALSE)
              /\ \A j \in (k + 1)..Len(inbox[e]) :
                     inbox[e][j] # Done(Signal, TRUE)
Remembered ==
    reader \in {"capture", "parked"} /\ ~missed /\ ~raced /\ locked =>
        \A e \in heard \cap reg : Waits(e)

IInv ==
    /\ TypeOK /\ PromptingAlive
    /\ Handled /\ Flights /\ Callers
    /\ Truthful /\ Cached
    /\ Listening /\ Remembered

-----------------------------------------------------------------------------
(* Messages and requests.                                                  *)

\* A message appended to a socket comes last and moves no other.
LEMMA AppendFacts ==
    ASSUME NEW S, NEW msgs \in Seq(S), NEW m \in S
    PROVE  /\ Append(msgs, m) \in Seq(S)
           /\ Len(msgs) \in Nat /\ Len(Append(msgs, m)) = Len(msgs) + 1
           /\ \A i \in 1..Len(msgs) : Append(msgs, m)[i] = msgs[i]
           /\ Append(msgs, m)[Len(msgs) + 1] = m
  OBVIOUS

\* Taking the first message moves each of the others up by one.
LEMMA TailFacts ==
    ASSUME NEW S, NEW msgs \in Seq(S), msgs # <<>>
    PROVE  /\ Len(msgs) \in Nat /\ Len(msgs) > 0
           /\ Head(msgs) = msgs[1] /\ Head(msgs) \in S
           /\ Tail(msgs) \in Seq(S) /\ Len(Tail(msgs)) = Len(msgs) - 1
           /\ \A i \in 1..(Len(msgs) - 1) : Tail(msgs)[i] = msgs[i + 1]
  OBVIOUS

\* The messages the agent sends are well formed and told apart by kind.
LEMMA MessageFacts ==
    /\ Needed \in Messages /\ Needed.kind = "needed"
    /\ \A l \in BOOLEAN : /\ State(l) \in Messages
                          /\ State(l).kind = "state" /\ State(l).locked = l
    /\ \A s \in Slots, ok \in BOOLEAN :
           Done(s, ok) \in Answers /\ Replies(Done(s, ok), s) /\ Done(s, ok).ok = ok
    /\ \A m \in Answers : m \in Messages /\ m.kind = "answer"
  BY DEF Needed, State, Done, Messages, Answers, Replies

\* A status tells the lock state, and is no outcome of a password.
LEMMA StatusFacts ==
    ASSUME AgentTypes, NEW s \in Slots
    PROVE  /\ Status(s) \in Answers /\ Replies(Status(s), s)
           /\ Status(s).locked = locked /\ Status(s) \notin Outcomes(s)
<1>1. /\ Status(s) \in Answers /\ Replies(Status(s), s)
      /\ Status(s).locked = locked
  BY DEF Status, Answers, Replies, AgentTypes
<1>2. Status(s) \notin Outcomes(s)
  <2>1. "locked" \in DOMAIN Status(s)
    BY DEF Status
  <2>2. \A ok : "locked" \notin DOMAIN Done(s, ok)
    BY DEF Done
  <2> QED BY <2>1, <2>2 DEF Outcomes
<1> QED BY <1>1, <1>2

FlowOps == {"status", "create", "unlock", "rotate"}

\* `daemon.request` sets one request, which waits, runs or is lost, and
\* may start a dial.
LEMMA RequestFacts ==
    ASSUME TypeOK, Handled, NEW e \in Editors, NEW s \in Slots, NEW op \in Ops,
           NEW good \in BOOLEAN, op # "none", op \in {"lock", "cancel"} => s \notin Flows,
           Request(e, s, op, good)
    PROVE  /\ task' \in [Editors -> [Slots -> Tasks]] /\ Handled'
           /\ task'[e][s].op = op /\ task'[e][s].pc \in {"waiter", "run", "lost"}
           /\ task'[e][s].pc = "run" => e \in reg
           /\ \A d \in Editors, z \in Slots :
                  d # e \/ z # s => task'[d][z] = task[d][z]
           /\ conn' \in [Editors -> {"down", "dialing", "up", "ready"}]
           /\ \A d \in Editors :
                  \/ conn'[d] = conn[d]
                  \/ d = e /\ conn[d] = "down" /\ conn'[d] = "dialing"
<1> DEFINE t == Sent(e, op, good)
<1>1. /\ t \in Tasks /\ t.op = op /\ t.pc \in {"waiter", "run", "lost"}
      /\ t.pc = "run" => e \in reg
  <2> DEFINE pc == IF conn[e] # "ready" THEN "waiter"
                   ELSE IF e \in reg THEN "run" ELSE "lost"
  <2>1. pc \in {"waiter", "run", "lost"} /\ (pc = "run" => e \in reg)
    OBVIOUS
  <2>2. t = [op |-> op, good |-> good, pc |-> pc]
    BY DEF Sent
  <2> HIDE DEF pc, t
  <2> QED BY <2>1, <2>2 DEF Tasks
<1> HIDE DEF t
<1>2. task \in [Editors -> [Slots -> Tasks]] /\ task' = [task EXCEPT ![e][s] = t]
  BY DEF TypeOK, Request, t
<1>3. /\ task' \in [Editors -> [Slots -> Tasks]] /\ task'[e][s] = t
      /\ \A d \in Editors, z \in Slots :
             d # e \/ z # s => task'[d][z] = task[d][z]
  BY <1>1, <1>2
<1>4. /\ conn' \in [Editors -> {"down", "dialing", "up", "ready"}]
      /\ \A d \in Editors :
             \/ conn'[d] = conn[d]
             \/ d = e /\ conn[d] = "down" /\ conn'[d] = "dialing"
  <2>1. /\ conn \in [Editors -> {"down", "dialing", "up", "ready"}]
        /\ conn' = IF conn[e] = "down" THEN [conn EXCEPT ![e] = "dialing"] ELSE conn
    BY DEF TypeOK, EditorTypes, Request, Dialled
  <2> QED BY <2>1
<1>5. Handled'
  <2> SUFFICES ASSUME NEW d \in Editors, NEW z \in Slots
               PROVE  Holds(task'[d][z], z)
    BY DEF Handled, Holds, Replies, Outcomes, Done, Idle
  <2>1. CASE d = e /\ z = s
    BY <1>1, <1>3, <2>1 DEF Holds
  <2>2. CASE d # e \/ z # s
    BY <1>3, <2>2 DEF Handled
  <2> QED BY <2>1, <2>2
<1> QED BY <1>1, <1>3, <1>4, <1>5

Stages == Asking \cup Waiting \cup {"none"}

\* A flow of an editor goes on: to an input, to a request, or to its end.
Advances(e, f, ok) ==
    \/ \E stage \in Asking : Goto(e, f, stage) /\ NoRequest
    \/ \E stage \in Waiting, op \in FlowOps, good \in BOOLEAN :
           /\ flow' = [flow EXCEPT ![e][f] = stage]
           /\ prompting' = [prompting EXCEPT ![e] = @ \/ f = Signal]
           /\ Request(e, f, op, good)
           /\ op = "status" <=> stage \in Looks
           /\ f = Signal => stage # "ensure"
    \/ Finish(e, f, ok)

\* A flow that goes on keeps the types and the flag, leaves the other
\* flows alone, and cancels the parked readers unless it succeeded.
LEMMA AdvanceFacts ==
    ASSUME TypeOK, PromptingAlive, Handled, NEW e \in Editors, NEW f \in Flows,
           NEW ok \in BOOLEAN, Advances(e, f, ok),
           f = Signal /\ flow'[e][f] \in Asking => flow[e][f] # "none"
    PROVE  /\ flow' \in [Editors -> [Flows -> Stages]]
           /\ \A d \in Editors, g \in Flows :
                  d # e \/ g # f => flow'[d][g] = flow[d][g]
           /\ flow[e][Signal] # "ensure" => flow'[e][Signal] # "ensure"
           /\ prompting' \in [Editors -> BOOLEAN] /\ PromptingAlive'
           /\ task' \in [Editors -> [Slots -> Tasks]] /\ Handled'
           /\ \A d \in Editors, z \in Slots :
                  d # e \/ z \notin {f, "cancel"} => task'[d][z] = task[d][z]
           /\ task[e]["cancel"] # Idle => task'[e]["cancel"] # Idle
           /\ \/ task'[e]["cancel"] = task[e]["cancel"]
              \/ task'[e]["cancel"].op = "cancel"
           /\ \A z \in Slots :
                  \/ task'[e][z] = task[e][z]
                  \/ task'[e][z].pc \in {"waiter", "lost"}
                  \/ task'[e][z].pc = "run" /\ e \in reg
           /\ \/ flow'[e][f] \notin Waiting /\ task'[e][f] = task[e][f]
              \/ /\ flow'[e][f] \in Waiting
                 /\ task'[e][f].pc \in {"waiter", "run", "lost"}
                 /\ task'[e][f].op = "status" <=> flow'[e][f] \in Looks
           /\ conn' \in [Editors -> {"down", "dialing", "up", "ready"}]
           /\ \A d \in Editors :
                  \/ conn'[d] = conn[d]
                  \/ d = e /\ conn[d] = "down" /\ conn'[d] = "dialing"
           /\ prompting[e] => prompting'[e] \/ ok \/ task'[e]["cancel"] # Idle
           /\ f # Signal \/ flow'[e][f] # "none" =>
                  \A d \in Editors : prompting[d] => prompting'[d]
<1>0. /\ flow \in [Editors -> [Flows -> Stages]] /\ prompting \in [Editors -> BOOLEAN]
      /\ task \in [Editors -> [Slots -> Tasks]]
      /\ conn \in [Editors -> {"down", "dialing", "up", "ready"}]
      /\ f \in Slots /\ "cancel" \in Slots /\ f # "cancel" /\ Signal \in Flows
      /\ FlowOps \subseteq Ops /\ "cancel" \in Ops /\ "cancel" \notin Flows
      /\ "none" \notin Asking \cup Waiting /\ Asking \cap Waiting = {}
      /\ "ensure" \notin Asking
  BY PromptAssumption DEF TypeOK, EditorTypes, Stages, Slots, FlowOps, Ops, Asking,
                          Waiting
<1>a. Idle.pc = "none"
  BY DEF Idle
<1>b. Stages = Asking \cup Waiting \cup {"none"}
  BY DEF Stages
<1>1. ASSUME NEW stage \in Stages, flow' = [flow EXCEPT ![e][f] = stage]
      PROVE  /\ flow' \in [Editors -> [Flows -> Stages]] /\ flow'[e][f] = stage
             /\ \A d \in Editors, g \in Flows :
                    d # e \/ g # f => flow'[d][g] = flow[d][g]
  BY <1>0, <1>1
<1>2. ASSUME NEW stage \in Asking, Goto(e, f, stage), NoRequest
      PROVE  /\ flow'[e][f] = stage /\ flow' = [flow EXCEPT ![e][f] = stage]
             /\ UNCHANGED <<prompting, task, conn>>
  BY <1>0, <1>2 DEF Goto, NoRequest
<1>3. CASE \E stage \in Asking : Goto(e, f, stage) /\ NoRequest
  <2>1. PICK stage \in Asking : Goto(e, f, stage) /\ NoRequest
    BY <1>3
  <2>2. /\ flow' \in [Editors -> [Flows -> Stages]] /\ flow'[e][f] = stage
        /\ \A d \in Editors, g \in Flows :
               d # e \/ g # f => flow'[d][g] = flow[d][g]
        /\ UNCHANGED <<prompting, task, conn>>
    BY <1>1, <1>2, <1>b, <2>1
  <2>3. PromptingAlive'
    BY <1>0, <2>1, <2>2 DEF PromptingAlive
  <2>4. Handled'
    BY <2>2 DEF Handled
  <2>5. flow[e][Signal] # "ensure" => flow'[e][Signal] # "ensure"
    BY <1>0, <2>1, <2>2
  <2> QED BY <1>0, <2>1, <2>2, <2>3, <2>4, <2>5
<1>4. CASE \E stage \in Waiting, op \in FlowOps, good \in BOOLEAN :
               /\ flow' = [flow EXCEPT ![e][f] = stage]
               /\ prompting' = [prompting EXCEPT ![e] = @ \/ f = Signal]
               /\ Request(e, f, op, good)
               /\ op = "status" <=> stage \in Looks
               /\ f = Signal => stage # "ensure"
  <2>1. PICK stage \in Waiting, op \in FlowOps, good \in BOOLEAN :
            /\ flow' = [flow EXCEPT ![e][f] = stage]
            /\ prompting' = [prompting EXCEPT ![e] = @ \/ f = Signal]
            /\ Request(e, f, op, good)
            /\ op = "status" <=> stage \in Looks
            /\ f = Signal => stage # "ensure"
    BY <1>4
  <2>2. /\ flow' \in [Editors -> [Flows -> Stages]] /\ flow'[e][f] = stage
        /\ \A d \in Editors, g \in Flows :
               d # e \/ g # f => flow'[d][g] = flow[d][g]
    BY <1>1, <1>b, <2>1
  <2>3. /\ prompting' \in [Editors -> BOOLEAN]
        /\ \A d \in Editors : d # e => prompting'[d] = prompting[d]
        /\ prompting'[e] <=> prompting[e] \/ f = Signal
    BY <1>0, <2>1
  <2>4. PromptingAlive'
    BY <1>0, <2>2, <2>3 DEF PromptingAlive
  <2>5. op \in Ops /\ op # "none" /\ op \notin {"lock", "cancel"}
    BY <1>0 DEF FlowOps
  <2>6. /\ task' \in [Editors -> [Slots -> Tasks]] /\ Handled'
        /\ task'[e][f].op = op /\ task'[e][f].pc \in {"waiter", "run", "lost"}
        /\ task'[e][f].pc = "run" => e \in reg
        /\ \A d \in Editors, z \in Slots :
               d # e \/ z # f => task'[d][z] = task[d][z]
        /\ conn' \in [Editors -> {"down", "dialing", "up", "ready"}]
        /\ \A d \in Editors :
               \/ conn'[d] = conn[d]
               \/ d = e /\ conn[d] = "down" /\ conn'[d] = "dialing"
    BY <1>0, <2>1, <2>5, RequestFacts
  <2>7. flow[e][Signal] # "ensure" => flow'[e][Signal] # "ensure"
    BY <1>0, <2>1, <2>2
  <2> QED BY <1>0, <2>1, <2>2, <2>3, <2>4, <2>6, <2>7
<1>5. CASE Finish(e, f, ok)
  <2>1. /\ flow' \in [Editors -> [Flows -> Stages]] /\ flow'[e][f] = "none"
        /\ \A d \in Editors, g \in Flows :
               d # e \/ g # f => flow'[d][g] = flow[d][g]
    BY <1>1, <1>5, <1>b DEF Finish
  <2>2. /\ prompting' \in [Editors -> BOOLEAN]
        /\ \A d \in Editors : d # e => prompting'[d] = prompting[d]
        /\ prompting'[e] <=> prompting[e] /\ f # Signal
    BY <1>0, <1>5 DEF Finish
  <2>3. PromptingAlive'
    <3> SUFFICES ASSUME NEW d \in Editors
                 PROVE  prompting'[d] <=> flow'[d][Signal] # "none"
      BY DEF PromptingAlive
    <3>1. prompting[d] <=> flow[d][Signal] # "none"
      BY DEF PromptingAlive
    <3>2. CASE d = e /\ f = Signal
      BY <2>1, <2>2, <3>2
    <3>3. CASE d # e \/ f # Signal
      BY <1>0, <2>1, <2>2, <3>1, <3>3
    <3> QED BY <3>2, <3>3
  <2>4. CASE f = Signal /\ ~ok
    <3>1. PICK good \in BOOLEAN : Request(e, "cancel", "cancel", good)
      BY <1>5, <2>4, Zenon DEF Finish
    <3>2. /\ task' \in [Editors -> [Slots -> Tasks]] /\ Handled'
          /\ task'[e]["cancel"].pc \in {"waiter", "run", "lost"}
          /\ task'[e]["cancel"].op = "cancel"
          /\ task'[e]["cancel"].pc = "run" => e \in reg
          /\ \A d \in Editors, z \in Slots :
                 d # e \/ z # "cancel" => task'[d][z] = task[d][z]
          /\ conn' \in [Editors -> {"down", "dialing", "up", "ready"}]
          /\ \A d \in Editors :
                 \/ conn'[d] = conn[d]
                 \/ d = e /\ conn[d] = "down" /\ conn'[d] = "dialing"
      <4>1. "cancel" \in {"lock", "cancel"} => "cancel" \notin Flows
        BY <1>0
      <4>2. "cancel" # "none"
        OBVIOUS
      <4> QED BY <1>0, <3>1, <4>1, <4>2, RequestFacts
    <3>3. task'[e]["cancel"] # Idle
      BY <1>a, <3>2
    <3> QED BY <1>0, <2>1, <2>2, <2>3, <2>4, <3>2, <3>3
  <2>5. CASE ~(f = Signal /\ ~ok)
    <3>1. UNCHANGED <<task, conn>>
      BY <1>5, <2>5 DEF Finish, NoRequest
    <3>2. Handled'
      BY <3>1 DEF Handled
    <3> QED BY <1>0, <2>1, <2>2, <2>3, <2>5, <3>1, <3>2
  <2> QED BY <2>4, <2>5
<1> QED BY <1>3, <1>4, <1>5 DEF Advances

-----------------------------------------------------------------------------
(* The steps of an editor, by what they do.                                *)

\* The user or the API at a flow that does not wait.
Chooses(e, f) ==
    /\ ed[e] = "up"
    /\ flow[e][f] \notin Waiting
    /\ Advances(e, f, FALSE)
    /\ f = Signal /\ flow'[e][f] \in Asking => flow[e][f] # "none"
    /\ UNCHANGED <<ed, unlocked, inbox, agentVars>>

\* The answer a flow waits for.
Handles(e, f, ok) ==
    /\ ed[e] \in {"up", "leaving"}
    /\ inbox[e] # <<>>
    /\ Pop(e)
    /\ Replies(Head(inbox[e]), f)
    /\ flow[e][f] \in Waiting
    /\ Advances(e, f, ok)
    /\ ok /\ flow[e][f] # "ensure" => Head(inbox[e]) = Done(f, TRUE)
    /\ unlocked' = IF flow[e][f] = "ensure"
                   THEN [unlocked EXCEPT ![e] = ~Head(inbox[e]).locked]
                   ELSE unlocked
    /\ UNCHANGED <<ed, agentVars>>

\* An editor leaves, or its connection does.
Quits(e) ==
    /\ ed[e] \in {"up", "leaving"}
    /\ Leaves(e)
    /\ UNCHANGED <<unlocked, locked, exists, timer, readVars, deaths, raced>>
Loses(e) == OnEof(e) \/ ConnectFails(e)

\* A flow that asks the agent is one that goes on.
LEMMA GotoAdvances ==
    ASSUME TypeOK, PromptingAlive, NEW e \in Editors, NEW f \in Flows,
           NEW stage \in Waiting, NEW op \in FlowOps, NEW good \in BOOLEAN, NEW ok,
           Goto(e, f, stage), Request(e, f, op, good),
           op = "status" <=> stage \in Looks,
           f = Signal => stage # "ensure" /\ flow[e][f] # "none"
    PROVE  Advances(e, f, ok)
<1>1. prompting' = [prompting EXCEPT ![e] = @ \/ f = Signal]
  <2>1. prompting \in [Editors -> BOOLEAN] /\ UNCHANGED prompting
    BY DEF TypeOK, EditorTypes, Goto
  <2>2. f = Signal => prompting[e] = TRUE
    BY <2>1 DEF PromptingAlive
  <2>3. (prompting[e] \/ f = Signal) = prompting[e]
    BY <2>1, <2>2
  <2> QED BY <2>1, <2>3
<1>2. flow' = [flow EXCEPT ![e][f] = stage]
  BY DEF Goto
<1> QED BY <1>1, <1>2 DEF Advances

\* What the API and the user do at a prompt is a choice of one flow.
LEMMA ChooseSteps ==
    ASSUME IInv, NEW e \in Editors, NEW f \in Flows,
           \/ \E stage \in {"ensure", "status"} : Open(e, f, stage)
           \/ OpenRotate(e, f) \/ Cancel(e, f) \/ Type(e, f)
           \/ RotateMismatch(e, f) \/ \E good \in BOOLEAN : Submit(e, f, good)
    PROVE  Chooses(e, f)
<1>0. /\ TypeOK /\ PromptingAlive
      /\ flow \in [Editors -> [Flows -> Stages]]
      /\ Looks \subseteq Waiting /\ "status" \in FlowOps
      /\ Asking \cap Waiting = {} /\ "none" \notin Asking \cup Waiting
      /\ {"new", "confirm", "ask", "old", "next", "again"} \subseteq Asking
      /\ {"creating", "unlocking", "rotating"} \subseteq Waiting \ Looks
      /\ {"create", "unlock", "rotate"} \subseteq FlowOps \ {"status"}
  BY DEF IInv, TypeOK, EditorTypes, Stages, Looks, Waiting, Asking, FlowOps
<1>1. ASSUME NEW stage \in {"ensure", "status"}, Open(e, f, stage)
      PROVE  Chooses(e, f)
  <2>1. PICK good \in BOOLEAN : Request(e, f, "status", good)
    BY <1>1, Zenon DEF Open
  <2>2. /\ Goto(e, f, stage) /\ Free(e, f)
        /\ UNCHANGED <<ed, unlocked, inbox, agentVars>>
    BY <1>1 DEF Open
  <2>3. ed[e] = "up" /\ f # Signal /\ flow[e][f] = "none"
    BY <2>2 DEF Free
  <2>4. stage \in Looks /\ stage \in Waiting
    BY <1>0 DEF Looks
  <2>5. Advances(e, f, FALSE)
    BY <1>0, <2>1, <2>2, <2>3, <2>4, GotoAdvances
  <2> QED BY <1>0, <2>2, <2>3, <2>5 DEF Chooses
<1>2. ASSUME NEW stage \in Asking, Goto(e, f, stage), NoRequest,
             ed[e] = "up", flow[e][f] \notin Waiting,
             f = Signal => flow[e][f] # "none",
             UNCHANGED <<ed, unlocked, inbox, agentVars>>
      PROVE  Chooses(e, f)
  BY <1>2 DEF Chooses, Advances
<1>3. CASE OpenRotate(e, f)
  <2>1. /\ Goto(e, f, "old") /\ NoRequest /\ Free(e, f)
        /\ UNCHANGED <<ed, unlocked, inbox, agentVars>>
    BY <1>3 DEF OpenRotate
  <2> QED BY <1>0, <1>2, <2>1 DEF Free
<1>4. CASE Type(e, f)
  <2>1. /\ NoRequest /\ ed[e] = "up" /\ UNCHANGED <<ed, unlocked, inbox, agentVars>>
    BY <1>4 DEF Type
  <2>2. flow[e][f] \in Asking /\ \E stage \in Asking : Goto(e, f, stage)
    BY <1>0, <1>4 DEF Type
  <2> QED BY <1>0, <1>2, <2>1, <2>2
<1>5. CASE Cancel(e, f) \/ RotateMismatch(e, f)
  <2>1. /\ Finish(e, f, FALSE) /\ ed[e] = "up" /\ flow[e][f] \in Asking
        /\ UNCHANGED <<ed, unlocked, inbox, agentVars>>
    BY <1>0, <1>5 DEF Cancel, RotateMismatch
  <2> QED BY <1>0, <2>1 DEF Chooses, Advances
<1>6. ASSUME NEW good \in BOOLEAN, Submit(e, f, good) PROVE Chooses(e, f)
  <2>1. /\ ed[e] = "up" /\ UNCHANGED <<ed, unlocked, inbox, agentVars>>
    BY <1>6 DEF Submit
  <2>2. PICK stage \in Waiting \ Looks, op \in FlowOps \ {"status"} :
            Goto(e, f, stage) /\ Request(e, f, op, good)
    BY <1>0, <1>6 DEF Submit
  <2>3. flow[e][f] \in Asking
    BY <1>0, <1>6 DEF Submit
  <2>4. stage # "ensure"
    BY DEF Looks
  <2>5. Advances(e, f, FALSE)
    BY <1>0, <2>2, <2>3, <2>4, GotoAdvances
  <2> QED BY <1>0, <2>1, <2>3, <2>5 DEF Chooses
<1> QED BY <1>1, <1>3, <1>4, <1>5, <1>6

\* The editor takes the first message of a connection that is up.
LEMMA PopFacts ==
    ASSUME TypeOK, NEW e \in Editors, inbox[e] # <<>>, Pop(e)
    PROVE  /\ inbox' \in [Editors -> Seq(Messages)]
           /\ \A d \in Editors : d # e => inbox'[d] = inbox[d]
           /\ Len(inbox[e]) \in Nat /\ Len(inbox[e]) > 0
           /\ Len(inbox'[e]) = Len(inbox[e]) - 1
           /\ Head(inbox[e]) = inbox[e][1] /\ Head(inbox[e]) \in Messages
           /\ \A i \in 1..Len(inbox'[e]) : inbox'[e][i] = inbox[e][i + 1]
           /\ conn[e] \in {"up", "ready"}
<1>1. /\ inbox \in [Editors -> Seq(Messages)]
      /\ inbox' = [inbox EXCEPT ![e] = Tail(inbox[e])]
      /\ conn[e] \notin {"down", "dialing"}
      /\ conn[e] \in {"down", "dialing", "up", "ready"}
  BY DEF TypeOK, EditorTypes, Pop
<1>2. /\ Len(inbox[e]) \in Nat /\ Len(inbox[e]) > 0
      /\ Head(inbox[e]) = inbox[e][1] /\ Head(inbox[e]) \in Messages
      /\ Tail(inbox[e]) \in Seq(Messages)
      /\ Len(Tail(inbox[e])) = Len(inbox[e]) - 1
      /\ \A i \in 1..(Len(inbox[e]) - 1) : Tail(inbox[e])[i] = inbox[e][i + 1]
  BY <1>1, TailFacts
<1>3. inbox'[e] = Tail(inbox[e]) /\ \A d \in Editors : d # e => inbox'[d] = inbox[d]
  BY <1>1
<1>4. inbox' \in [Editors -> Seq(Messages)]
  BY <1>1, <1>2
<1> QED BY <1>1, <1>2, <1>3, <1>4

\* The answer a flow waits for moves that flow.
LEMMA HandleSteps ==
    ASSUME IInv, NEW e \in Editors, OnEnsureAnswer(e) \/ OnPromptAnswer(e)
    PROVE  \E f \in Flows, ok \in BOOLEAN : Handles(e, f, ok)
<1> DEFINE m == Head(inbox[e])
           f == m.to
<1>0. /\ TypeOK /\ PromptingAlive /\ Flights
      /\ Asking \cap Waiting = {} /\ "none" \notin Asking \cup Waiting
      /\ {"ask", "new"} \subseteq Asking
      /\ {"ensure", "status", "creating", "unlocking", "rotating"} \subseteq Waiting
      /\ "status" \in FlowOps /\ "status" \in Looks
      /\ "creating" \notin Looks /\ "unlocking" \notin Looks /\ "rotating" \notin Looks
  BY DEF IInv, Waiting, Asking, FlowOps, Looks
<1>1. /\ ed[e] \in {"up", "leaving"} /\ inbox[e] # <<>> /\ Pop(e)
      /\ m.kind = "answer" /\ f \in Flows /\ UNCHANGED <<ed, agentVars>>
  BY DEF OnEnsureAnswer, OnPromptAnswer, Takes
<1>2. Replies(m, f)
  BY <1>1 DEF Replies
<1>3. CASE OnEnsureAnswer(e)
  <2>1. /\ flow[e][f] = "ensure" /\ unlocked' = [unlocked EXCEPT ![e] = ~m.locked]
    BY <1>3 DEF OnEnsureAnswer
  <2>2. f # Signal
    BY <1>0, <1>1, <2>1 DEF Flights
  <2>3. Advances(e, f, TRUE)
    <3>1. CASE m.locked /\ Goto(e, f, "status") /\ Request(e, f, "status", FALSE)
      <4>1. PICK good \in BOOLEAN : Request(e, f, "status", good)
        BY <3>1, Zenon
      <4> QED BY <1>0, <1>1, <2>2, <3>1, <4>1, GotoAdvances
    <3>2. CASE Finish(e, f, TRUE)
      BY <3>2 DEF Advances
    <3> QED BY <1>3, <3>1, <3>2 DEF OnEnsureAnswer
  <2>4. Handles(e, f, TRUE)
    BY <1>0, <1>1, <1>2, <2>1, <2>3 DEF Handles
  <2> QED BY <1>1, <2>4
<1>4. CASE OnPromptAnswer(e)
  <2>1. UNCHANGED unlocked
    BY <1>4 DEF OnPromptAnswer
  <2>2. ASSUME NEW stage \in Asking, Goto(e, f, stage), NoRequest,
               flow[e][f] \in {"status", "unlocking"}
        PROVE  Handles(e, f, FALSE)
    <3>1. Advances(e, f, FALSE)
      BY <2>2 DEF Advances
    <3> QED BY <1>0, <1>1, <1>2, <2>1, <2>2, <3>1 DEF Handles
  <2>3. ASSUME flow[e][f] \in {"creating", "rotating", "unlocking"}, Finish(e, f, m.ok)
        PROVE  \E ok \in BOOLEAN : Handles(e, f, ok)
    <3>1. m \in Outcomes(f)
      <4>1. m = inbox[e][1] /\ 1 \in 1..Len(inbox[e])
        BY <1>0, <1>1, PopFacts
      <4>2. Flight(e, f) /\ flow[e][f] \notin Looks
        BY <1>0, <1>1, <2>3 DEF Flights
      <4> HIDE DEF m, f
      <4> QED BY <1>2, <4>1, <4>2 DEF Flight
    <3>2. PICK ok \in BOOLEAN : m = Done(f, ok)
      BY <3>1, Zenon DEF Outcomes
    <3>3. m.ok = ok
      BY <3>2 DEF Done
    <3>4. Advances(e, f, ok)
      BY <2>3, <3>3 DEF Advances
    <3>5. ok => m = Done(f, TRUE)
      BY <3>2
    <3> QED BY <1>0, <1>1, <1>2, <2>1, <2>3, <3>4, <3>5 DEF Handles
  <2>4. \/ flow[e][f] = "status" /\ NoRequest /\ \E stage \in Asking : Goto(e, f, stage)
        \/ flow[e][f] = "unlocking" /\ NoRequest /\ Goto(e, f, "ask")
        \/ flow[e][f] \in {"creating", "rotating", "unlocking"} /\ Finish(e, f, m.ok)
    BY <1>0, <1>4 DEF OnPromptAnswer
  <2>5. \E ok \in BOOLEAN : Handles(e, f, ok)
    BY <1>0, <2>2, <2>3, <2>4
  <2> QED BY <1>1, <2>5
<1> QED BY <1>3, <1>4

\* Every step is one of these.
LEMMA StepKinds ==
    ASSUME IInv, [Next]_vars
    PROVE  \/ \E e \in Editors, f \in Flows : Chooses(e, f)
           \/ \E e \in Editors, f \in Flows, ok \in BOOLEAN : Handles(e, f, ok)
           \/ \E e \in Editors : Quits(e)
           \/ \E e \in Editors : Loses(e)
           \/ \E e \in Editors : Setup(e)
           \/ \E e \in Editors : LockCall(e) \/ ExitLocks(e)
           \/ \E e \in Editors : OnState(e)
           \/ \E e \in Editors : OnNeeded(e)
           \/ \E e \in Editors : OnHello(e)
           \/ \E e \in Editors : Connect(e)
           \/ \E e \in Editors, s \in Slots : Serve(e, s)
           \/ AutoLock \/ AutoAnnounce
           \/ Read \/ ReadSignals \/ ReadParks \/ ReadGivesUp
           \/ AgentDies
           \/ UNCHANGED vars
<1>1. ASSUME NEW e \in Editors, ExitUnlocked(e) \/ ExitTimeout(e) \/ OnExitAnswer(e)
                                  \/ OnEofLeaving(e)
      PROVE  Quits(e)
  BY <1>1 DEF ExitUnlocked, ExitTimeout, OnExitAnswer, OnEofLeaving, Takes, Quits
<1>2. ASSUME NEW e \in Editors, Receive(e)
      PROVE  \/ \E f \in Flows, ok \in BOOLEAN : Handles(e, f, ok)
             \/ Quits(e) \/ Loses(e) \/ OnState(e) \/ OnNeeded(e) \/ OnHello(e)
  BY <1>1, <1>2, HandleSteps DEF Receive, Loses
<1> QED BY <1>1, <1>2, ChooseSteps DEF Next, Loses

-----------------------------------------------------------------------------
(* Types, the prompt flag and what the handlers hold.                      *)

\* The bounded counter stays in its bound.
LEMMA EventsType ==
    ASSUME TypeOK, [Next]_vars
    PROVE  events' \in 0..MaxEvents
<1>1. MaxEvents \in Nat /\ events \in 0..MaxEvents
  BY PromptAssumption DEF TypeOK, EditorTypes
<1>2. ASSUME NEW e \in Editors,
             \/ Setup(e) \/ LockCall(e) \/ ExitLocks(e)
             \/ \E f \in Flows :
                    \/ \E stage \in {"ensure", "status"} : Open(e, f, stage)
                    \/ OpenRotate(e, f) \/ Cancel(e, f) \/ Type(e, f)
                    \/ RotateMismatch(e, f) \/ \E good \in BOOLEAN : Submit(e, f, good)
      PROVE  UNCHANGED events \/ Event
  BY <1>2 DEF Setup, LockCall, ExitLocks, Open, OpenRotate, Cancel, Type,
              RotateMismatch, Submit
<1>3. ASSUME NEW e \in Editors, ExitUnlocked(e) \/ ExitTimeout(e) \/ Receive(e)
                                  \/ Connect(e) \/ ConnectFails(e)
      PROVE  UNCHANGED events
  BY <1>3 DEF ExitUnlocked, ExitTimeout, Receive, OnState, OnNeeded, OnHello,
              OnExitAnswer, OnEnsureAnswer, OnPromptAnswer, OnEof, OnEofLeaving,
              Teardown, Connect, ConnectFails
<1>4. ASSUME NEW e \in Editors, NEW s \in Slots, Serve(e, s)
      PROVE  UNCHANGED events
  BY <1>4 DEF Serve, RunStatus, RunInstall, RunFails, RunLock, RunCancel, Announce,
              Reply
<1>5. CASE AutoLock \/ AutoAnnounce \/ Read \/ ReadSignals \/ ReadParks
             \/ ReadGivesUp \/ AgentDies \/ UNCHANGED vars
  <2>1. UNCHANGED events \/ Event
    BY <1>5 DEF AutoLock, AutoAnnounce, Read, ReadSignals, ReadParks, ReadGivesUp,
                AgentDies, vars
  <2> QED BY <1>1, <2>1 DEF Event
<1>6. UNCHANGED events \/ Event => events' \in 0..MaxEvents
  BY <1>1 DEF Event
<1> QED BY <1>2, <1>3, <1>4, <1>5, <1>6 DEF Next

\* A step of an editor that is running.
LEMMA EditorKeepsTypes ==
    ASSUME TypeOK, events' \in 0..MaxEvents, NEW e \in Editors,
           ed[e] \in {"up", "leaving"},
           UNCHANGED ed \/ ed' = [ed EXCEPT ![e] = "leaving"],
           unlocked' \in [Editors -> BOOLEAN],
           prompting' \in [Editors -> BOOLEAN],
           flow' \in [Editors -> [Flows -> Stages]],
           conn' \in [Editors -> {"down", "dialing", "up", "ready"}],
           \A d \in Editors :
               \/ conn'[d] = conn[d]
               \/ d = e /\ conn[d] = "down" /\ conn'[d] = "dialing"
               \/ d = e /\ conn'[d] = "ready",
           inbox' \in [Editors -> Seq(Messages)],
           \A d \in Editors : inbox[d] = <<>> => inbox'[d] = <<>>,
           task' \in [Editors -> [Slots -> Tasks]],
           UNCHANGED agentVars
    PROVE  TypeOK'
<1>1. /\ ed' \in [Editors -> {"off", "up", "leaving", "gone"}]
      /\ \A d \in Editors : ed'[d] = ed[d] \/ ed'[d] = "leaving"
  BY DEF TypeOK, EditorTypes
<1>2. \A d \in Editors : ed'[d] \in {"off", "gone"} => conn'[d] = "down"
  BY <1>1 DEF TypeOK, EditorTypes
<1>3. EditorTypes'
  BY <1>1, <1>2 DEF EditorTypes, Stages
<1>4. UNCHANGED <<reg, locked, exists, timer, reader, heard, missed, deaths, raced>>
  BY DEF agentVars, readVars
<1>5. AgentTypes' /\ (~locked' => exists')
  BY <1>4 DEF TypeOK, AgentTypes
<1>6. \A d \in Editors : conn'[d] \in {"down", "dialing"} =>
          d \notin reg' /\ inbox'[d] = <<>>
  BY <1>4 DEF TypeOK
<1> QED BY <1>3, <1>5, <1>6 DEF TypeOK

\* A step of the agent.
LEMMA AgentKeepsTypes ==
    ASSUME TypeOK, events' \in 0..MaxEvents, AgentTypes', ~locked' => exists',
           UNCHANGED editorVars, reg' \subseteq reg,
           inbox' \in [Editors -> Seq(Messages)],
           \A d \in Editors \ reg : inbox'[d] = inbox[d],
           task' \in [Editors -> [Slots -> Tasks]]
    PROVE  TypeOK' /\ (PromptingAlive => PromptingAlive')
<1>1. EditorTypes'
  BY DEF TypeOK, EditorTypes, editorVars
<1>2. \A d \in Editors : conn'[d] \in {"down", "dialing"} =>
          d \notin reg' /\ inbox'[d] = <<>>
  BY DEF TypeOK, editorVars
<1>3. PromptingAlive => PromptingAlive'
  BY DEF PromptingAlive, editorVars
<1> QED BY <1>1, <1>2, <1>3 DEF TypeOK

\* A broadcast is appended for each registered editor, and for no other.
LEMMA BroadcastFacts ==
    ASSUME TypeOK, NEW m \in Messages, Broadcast(m)
    PROVE  /\ inbox' \in [Editors -> Seq(Messages)]
           /\ \A d \in Editors \ reg : inbox'[d] = inbox[d]
           /\ \A d \in reg :
                  /\ Len(inbox[d]) \in Nat /\ Len(inbox'[d]) = Len(inbox[d]) + 1
                  /\ \A i \in 1..Len(inbox[d]) : inbox'[d][i] = inbox[d][i]
                  /\ inbox'[d][Len(inbox[d]) + 1] = m
<1>1. /\ inbox \in [Editors -> Seq(Messages)] /\ reg \subseteq Editors
      /\ inbox' = [d \in Editors |-> IF d \in reg THEN Append(inbox[d], m)
                                     ELSE inbox[d]]
  BY DEF TypeOK, AgentTypes, Broadcast
<1>2. \A d \in reg : inbox'[d] = Append(inbox[d], m)
  BY <1>1
<1>3. ASSUME NEW d \in reg
      PROVE  /\ inbox'[d] \in Seq(Messages)
             /\ Len(inbox[d]) \in Nat /\ Len(inbox'[d]) = Len(inbox[d]) + 1
             /\ \A i \in 1..Len(inbox[d]) : inbox'[d][i] = inbox[d][i]
             /\ inbox'[d][Len(inbox[d]) + 1] = m
  BY <1>1, <1>2, AppendFacts
<1>4. \A d \in Editors \ reg : inbox'[d] = inbox[d]
  BY <1>1
<1>5. inbox' \in [Editors -> Seq(Messages)]
  BY <1>1, <1>3, <1>4
<1> QED BY <1>3, <1>4, <1>5

\* One task changes.
LEMMA TaskFacts ==
    ASSUME Handled, NEW e \in Editors, NEW s \in Slots, Holds(task'[e][s], s),
           \A d \in Editors, z \in Slots :
               d # e \/ z # s => task'[d][z] = task[d][z]
    PROVE  Handled'
<1> SUFFICES ASSUME NEW d \in Editors, NEW z \in Slots
             PROVE  Holds(task'[d][z], z)
  BY DEF Handled, Holds, Replies, Outcomes, Done, Idle
<1> QED BY DEF Handled

\* The tasks are well formed, and no flow has the name of another caller.
LEMMA IdleFacts ==
    /\ Idle \in Tasks /\ Idle.pc = "none" /\ Idle.op = "none"
    /\ \A t \in Tasks : t.op \in Ops
    /\ \A t \in Tasks : t.pc \in {"announce", "reply"} => t.answer \in Answers
    /\ \A op \in Ops, pc \in {"announce", "reply"}, a \in Answers :
           [op |-> op, pc |-> pc, answer |-> a] \in Tasks
    /\ \A f \in Flows : f \in Slots /\ f \notin {"hello", "lock", "cancel", "exit"}
    /\ {"hello", "lock", "cancel", "exit"} \subseteq Slots
  BY PromptAssumption DEF Idle, Tasks, Ops, Slots

\* An editor leaves: what remains of it is what the agent is doing for it.
LEMMA QuitFacts ==
    ASSUME TypeOK, Handled, NEW e \in Editors, Quits(e)
    PROVE  /\ ed' \in [Editors -> {"off", "up", "leaving", "gone"}] /\ ed'[e] = "gone"
           /\ conn'[e] = "down" /\ inbox'[e] = <<>> /\ reg' = reg \ {e}
           /\ \A d \in Editors \ {e} :
                  /\ ed'[d] = ed[d] /\ conn'[d] = conn[d] /\ inbox'[d] = inbox[d]
                  /\ flow'[d] = flow[d] /\ prompting'[d] = prompting[d]
           /\ task' \in [Editors -> [Slots -> Tasks]] /\ Handled'
           /\ \A d \in Editors, s \in Slots :
                  task'[d][s] = task[d][s] \/ task'[d][s] = Idle
           /\ \A d \in Editors, s \in Slots :
                  task[d][s].pc \in {"announce", "reply"} => task'[d][s] = task[d][s]
           /\ \A d \in Editors \ {e}, s \in Slots : task'[d][s] = task[d][s]
           /\ flow' \in [Editors -> [Flows -> Stages]]
           /\ conn' \in [Editors -> {"down", "dialing", "up", "ready"}]
           /\ inbox' \in [Editors -> Seq(Messages)]
           /\ prompting' \in [Editors -> BOOLEAN]
           /\ prompting'[e] = FALSE /\ \A f \in Flows : flow'[e][f] = "none"
<1> USE DEF TypeOK, EditorTypes
<1>1. /\ ed' \in [Editors -> {"off", "up", "leaving", "gone"}] /\ ed'[e] = "gone"
      /\ conn'[e] = "down" /\ inbox'[e] = <<>> /\ reg' = reg \ {e}
      /\ \A d \in Editors \ {e} :
             /\ ed'[d] = ed[d] /\ conn'[d] = conn[d] /\ inbox'[d] = inbox[d]
             /\ flow'[d] = flow[d] /\ prompting'[d] = prompting[d]
  BY DEF Quits, Leaves
<1>2. /\ conn' \in [Editors -> {"down", "dialing", "up", "ready"}]
      /\ prompting' \in [Editors -> BOOLEAN] /\ prompting'[e] = FALSE
  BY DEF Quits, Leaves
<1>3. inbox' \in [Editors -> Seq(Messages)]
  BY DEF Quits, Leaves
<1>4. /\ flow' \in [Editors -> [Flows -> Stages]]
      /\ \A f \in Flows : flow'[e][f] = "none"
  BY DEF Quits, Leaves, Stages
<1>5. /\ task' \in [Editors -> [Slots -> Tasks]]
      /\ \A s \in Slots : task'[e][s] = IF task[e][s].pc \in {"waiter", "lost"}
                                        THEN Idle ELSE task[e][s]
      /\ \A d \in Editors \ {e}, s \in Slots : task'[d][s] = task[d][s]
  BY IdleFacts DEF Quits, Leaves
<1>6. \A d \in Editors, s \in Slots :
          /\ task'[d][s] = task[d][s] \/ task'[d][s] = Idle
          /\ task[d][s].pc \in {"announce", "reply"} => task'[d][s] = task[d][s]
  <2> TAKE d \in Editors, s \in Slots
  <2>1. CASE d = e
    BY <1>5, <2>1
  <2>2. CASE d # e
    BY <1>5, <2>2
  <2> QED BY <2>1, <2>2
<1>7. Handled'
  <2> SUFFICES ASSUME NEW d \in Editors, NEW z \in Slots
               PROVE  Holds(task'[d][z], z)
    BY DEF Handled, Holds, Replies, Outcomes, Done, Idle
  <2>1. CASE task'[d][z] = task[d][z]
    BY <2>1 DEF Handled
  <2>2. CASE task'[d][z] = Idle
    BY <2>2, IdleFacts DEF Holds
  <2> QED BY <1>6, <2>1, <2>2
<1> QED BY <1>1, <1>2, <1>3, <1>4, <1>5, <1>6, <1>7

\* A connection is lost, or was not made: every wait ends.
LEMMA LoseFacts ==
    ASSUME TypeOK, PromptingAlive, Handled, NEW e \in Editors, Loses(e)
    PROVE  /\ ed[e] \in {"up", "leaving"} /\ e \notin reg /\ inbox[e] = <<>>
           /\ UNCHANGED <<ed, unlocked, inbox, events, agentVars>>
           /\ flow' \in [Editors -> [Flows -> Stages]]
           /\ \A d \in Editors \ {e} : /\ flow'[d] = flow[d] /\ conn'[d] = conn[d]
                                       /\ prompting'[d] = prompting[d]
           /\ flow[e][Signal] # "ensure" => flow'[e][Signal] # "ensure"
           /\ conn' \in [Editors -> {"down", "dialing", "up", "ready"}]
           /\ conn'[e] \in {"down", "dialing"}
           /\ prompting' \in [Editors -> BOOLEAN] /\ PromptingAlive'
           /\ task' \in [Editors -> [Slots -> Tasks]] /\ Handled'
           /\ \A d \in Editors \ {e}, s \in Slots : task'[d][s] = task[d][s]
           /\ \A s \in Slots : task'[e][s] # Idle => s = "cancel"
           /\ \A s \in Slots : task'[e][s].pc \in {"none", "waiter"}
           /\ task'[e]["cancel"].op \in {"none", "cancel"}
<1>0. /\ flow \in [Editors -> [Flows -> Stages]] /\ prompting \in [Editors -> BOOLEAN]
      /\ conn \in [Editors -> {"down", "dialing", "up", "ready"}]
      /\ task \in [Editors -> [Slots -> Tasks]] /\ Signal \in Flows
  BY PromptAssumption DEF TypeOK, EditorTypes, Stages
<1>1. /\ ed[e] \in {"up", "leaving"} /\ e \notin reg /\ inbox[e] = <<>> /\ Teardown(e)
      /\ UNCHANGED ed
  BY DEF TypeOK, EditorTypes, Loses, OnEof, ConnectFails
<1>2. UNCHANGED <<ed, unlocked, inbox, events, agentVars>>
  BY <1>1 DEF Teardown
<1> DEFINE Ends == {"ensure", "status", "creating", "rotating"}
           cancels == flow[e][Signal] \in Ends
           next(stage) == CASE stage \in Ends -> "none"
                            [] stage = "unlocking" -> "ask"
                            [] OTHER -> stage
<1>3. /\ flow' = [flow EXCEPT ![e] = [f \in Flows |-> next(flow[e][f])]]
      /\ prompting' = [prompting EXCEPT ![e] = prompting[e] /\ ~cancels]
      /\ conn' = [conn EXCEPT ![e] = IF cancels THEN "dialing" ELSE "down"]
  BY <1>0, <1>1 DEF Teardown
<1>4. \A stage \in Stages : /\ next(stage) \in Stages /\ next(stage) # "ensure"
                            /\ next(stage) = "none" <=> stage \in Ends \cup {"none"}
  BY DEF Stages, Asking, Waiting
<1> HIDE DEF next
<1>5. /\ flow' \in [Editors -> [Flows -> Stages]]
      /\ \A f \in Flows : flow'[e][f] = next(flow[e][f])
      /\ \A d \in Editors \ {e} : flow'[d] = flow[d]
  BY <1>0, <1>3, <1>4
<1>6. /\ prompting' \in [Editors -> BOOLEAN] /\ (prompting'[e] <=> prompting[e] /\ ~cancels)
      /\ \A d \in Editors \ {e} : prompting'[d] = prompting[d]
  BY <1>0, <1>3
<1>7. /\ conn' \in [Editors -> {"down", "dialing", "up", "ready"}]
      /\ conn'[e] \in {"down", "dialing"}
      /\ \A d \in Editors \ {e} : conn'[d] = conn[d]
  BY <1>0, <1>3
<1>8. PromptingAlive'
  <2> SUFFICES ASSUME NEW d \in Editors
               PROVE  prompting'[d] <=> flow'[d][Signal] # "none"
    BY DEF PromptingAlive
  <2>1. prompting[d] <=> flow[d][Signal] # "none"
    BY DEF PromptingAlive
  <2>2. CASE d = e
    <3>1. flow[e][Signal] \in Stages /\ flow'[e][Signal] = next(flow[e][Signal])
      BY <1>0, <1>5
    <3> QED BY <1>4, <1>6, <2>1, <2>2, <3>1
  <2>3. CASE d # e
    BY <1>5, <1>6, <2>1, <2>3
  <2> QED BY <2>2, <2>3
<1>9. flow'[e][Signal] # "ensure"
  BY <1>0, <1>4, <1>5
<1>10. /\ task' \in [Editors -> [Slots -> Tasks]]
       /\ \A d \in Editors \ {e}, s \in Slots : task'[d][s] = task[d][s]
       /\ \A s \in Slots : \/ task'[e][s] = Idle
                           \/ /\ s = "cancel" /\ task'[e][s].pc = "waiter"
                              /\ task'[e][s].op = "cancel"
  <2>1. CASE OnEof(e)
    BY <1>0, <2>1, IdleFacts DEF OnEof
  <2>2. CASE ConnectFails(e)
    <3> DEFINE t == Sent(e, "cancel", FALSE)
    <3>1. t = [op |-> "cancel", good |-> FALSE, pc |-> "waiter"]
      BY <2>2 DEF ConnectFails, Sent
    <3>2. t \in Tasks /\ t.pc = "waiter" /\ t.op = "cancel"
      <4>1. \A b \in BOOLEAN : LET u == [op |-> "cancel", good |-> b, pc |-> "waiter"]
                               IN  u \in Tasks /\ u.pc = "waiter" /\ u.op = "cancel"
        BY DEF Tasks, Ops
      <4>2. FALSE \in BOOLEAN
        OBVIOUS
      <4> QED BY <3>1, <4>1, <4>2, Zenon
    <3>3. task' = [task EXCEPT ![e] = [s \in Slots |->
              IF s = "cancel" /\ conn'[e] = "dialing" THEN t ELSE Idle]]
      BY <2>2 DEF ConnectFails
    <3> HIDE DEF t
    <3> QED BY <1>0, <3>2, <3>3, IdleFacts
  <2> QED BY <2>1, <2>2 DEF Loses
<1>11. /\ \A s \in Slots : task'[e][s] # Idle => s = "cancel"
       /\ \A s \in Slots : task'[e][s].pc \in {"none", "waiter"}
       /\ task'[e]["cancel"].op \in {"none", "cancel"}
  BY <1>10, IdleFacts
<1>12. Handled'
  <2> SUFFICES ASSUME NEW d \in Editors, NEW z \in Slots
               PROVE  Holds(task'[d][z], z)
    BY DEF Handled, Holds, Replies, Outcomes, Done, Idle
  <2>1. CASE d # e
    BY <1>10, <2>1 DEF Handled
  <2>2. CASE d = e
    BY <1>10, <2>2, IdleFacts DEF Holds
  <2> QED BY <2>1, <2>2
<1> QED BY <1>1, <1>2, <1>5, <1>6, <1>7, <1>8, <1>9, <1>10, <1>11, <1>12

-----------------------------------------------------------------------------
(* The steps of the agent, by what they do.                                *)

\* A change of the session marks the races it takes part in, and an
\* unlock releases the parked reader.
LEMMA SetLockedFacts ==
    ASSUME TypeOK, NEW l \in BOOLEAN, SetLocked(l)
    PROVE  /\ locked' = l /\ raced' \in BOOLEAN /\ missed' \in BOOLEAN
           /\ raced => raced'
           /\ l # locked /\ Unsent => raced'
           /\ reader' \in {reader, "idle"} /\ heard' \subseteq heard
           /\ reader = "parked" /\ ~l => reader' = "idle"
           /\ missed => missed'
           /\ reader = "capture" /\ l => missed'
<1>0. /\ raced \in BOOLEAN /\ missed \in BOOLEAN /\ heard \subseteq Editors
      /\ reader \in {"idle", "signal", "capture", "parked"}
  BY DEF TypeOK, AgentTypes
<1>1. locked' = l /\ raced' = (raced \/ (l # locked /\ Unsent))
  BY DEF SetLocked
<1>2. /\ raced' \in BOOLEAN /\ (raced => raced') /\ (l # locked /\ Unsent => raced')
  BY <1>0, <1>1
<1>3. CASE reader = "parked" /\ ~l
  <2>1. reader' = "idle" /\ heard' = {} /\ UNCHANGED missed
    BY <1>3 DEF SetLocked, Released
  <2> QED BY <1>0, <1>1, <1>2, <1>3, <2>1
<1>4. CASE ~(reader = "parked" /\ ~l)
  <2>1. missed' = (missed \/ (reader = "capture" /\ l)) /\ UNCHANGED <<reader, heard>>
    BY <1>4 DEF SetLocked
  <2>2. /\ missed' \in BOOLEAN /\ (missed => missed')
        /\ (reader = "capture" /\ l => missed')
    BY <1>0, <2>1
  <2> QED BY <1>0, <1>1, <1>2, <1>4, <2>1, <2>2
<1> QED BY <1>3, <1>4

\* The handler has a look at the session.
Looked(e, s) ==
    /\ task[e][s].op = "status"
    /\ task'[e][s].pc = "reply" /\ task'[e][s].answer = Status(s)
    /\ UNCHANGED agentVars

\* It changes the session: what it will announce is the case.
Changed(e, s) ==
    /\ task[e][s].op \notin {"status", "cancel", "none"}
    /\ task'[e][s].pc = "announce"
    /\ task[e][s].op = "lock" => ~locked
    /\ \E l \in BOOLEAN : SetLocked(l) /\ (l <=> task[e][s].op = "lock")
    /\ UNCHANGED <<reg, timer, deaths>>

\* Or it leaves the session as it is.
Left(e, s) ==
    /\ task[e][s].op \notin {"status", "cancel", "none"}
    /\ task'[e][s].pc = "reply"
    /\ s \in Flows => task'[e][s].answer = Done(s, FALSE)
    /\ \/ UNCHANGED agentVars
       \/ /\ locked /\ UNCHANGED <<reg, exists, timer, deaths>>
          /\ \E l \in BOOLEAN : l /\ SetLocked(l)

\* A handler looks at the session, changes it or leaves it, and has its
\* answer.
LEMMA RunFacts ==
    ASSUME TypeOK, Handled, NEW e \in Editors, NEW s \in Slots,
           RunStatus(e, s) \/ RunInstall(e, s) \/ RunFails(e, s) \/ RunLock(e, s)
    PROVE  /\ UNCHANGED <<editorVars, inbox>> /\ AgentTypes' /\ (~locked' => exists')
           /\ task[e][s].pc = "run" /\ task'[e][s].op = task[e][s].op
           /\ Looked(e, s) \/ Changed(e, s) \/ Left(e, s)
           /\ task' \in [Editors -> [Slots -> Tasks]] /\ Handled'
           /\ \A d \in Editors, z \in Slots :
                  d # e \/ z # s => task'[d][z] = task[d][z]
<1> DEFINE op == task[e][s].op
<1>0. /\ task \in [Editors -> [Slots -> Tasks]] /\ op \in Ops /\ AgentTypes
      /\ locked \in BOOLEAN /\ (~locked => exists)
      /\ op \in {"lock", "cancel"} => s \notin Flows
  BY IdleFacts DEF TypeOK, AgentTypes, Handled, Holds
<1>1. ASSUME NEW pc \in {"announce", "reply"}, NEW a \in Answers, Replies(a, s),
             Result(e, s, pc, a), op # "none",
             IF op = "status" THEN pc = "reply" /\ a \notin Outcomes(s)
             ELSE a \in Outcomes(s)
      PROVE  /\ task'[e][s].op = op /\ task'[e][s].pc = pc /\ task'[e][s].answer = a
             /\ task' \in [Editors -> [Slots -> Tasks]] /\ Handled'
             /\ \A d \in Editors, z \in Slots :
                    d # e \/ z # s => task'[d][z] = task[d][z]
  <2>1. PICK t \in Tasks : t = [op |-> op, pc |-> pc, answer |-> a]
    BY <1>0, IdleFacts
  <2>2. task' = [task EXCEPT ![e][s] = t]
    BY <1>1, <2>1 DEF Result
  <2>3. t.op = op /\ t.pc = pc /\ t.answer = a
    BY <2>1
  <2> HIDE DEF op
  <2>4. Holds(t, s)
    BY <1>0, <1>1, <2>3 DEF Holds
  <2>5. /\ task' \in [Editors -> [Slots -> Tasks]] /\ task'[e][s] = t
        /\ \A d \in Editors, z \in Slots :
               d # e \/ z # s => task'[d][z] = task[d][z]
    BY <1>0, <2>2
  <2>6. Handled'
    BY <2>4, <2>5, TaskFacts
  <2> QED BY <2>3, <2>5, <2>6
<1>2. /\ \A ok \in BOOLEAN : Done(s, ok) \in Answers /\ Replies(Done(s, ok), s)
      /\ \A ok \in BOOLEAN : Done(s, ok) \in Outcomes(s)
  <2>1. \A ok \in BOOLEAN : Done(s, ok) \in Outcomes(s)
    BY Zenon DEF Outcomes
  <2> QED BY <2>1, MessageFacts
<1>3. CASE RunStatus(e, s)
  <2>1. /\ op = "status" /\ task[e][s].pc = "run" /\ Result(e, s, "reply", Status(s))
        /\ UNCHANGED <<editorVars, inbox, agentVars>>
    BY <1>3 DEF RunStatus, Runs
  <2>2. /\ Status(s) \in Answers /\ Replies(Status(s), s) /\ Status(s) \notin Outcomes(s)
    BY <1>0, StatusFacts
  <2>3. /\ task'[e][s].op = op /\ task'[e][s].pc = "reply"
        /\ task'[e][s].answer = Status(s)
        /\ task' \in [Editors -> [Slots -> Tasks]] /\ Handled'
        /\ \A d \in Editors, z \in Slots :
               d # e \/ z # s => task'[d][z] = task[d][z]
    BY <1>1, <2>1, <2>2
  <2>4. AgentTypes' /\ (~locked' => exists')
    BY <1>0, <2>1 DEF AgentTypes, agentVars, readVars
  <2> QED BY <2>1, <2>3, <2>4 DEF Looked
<1>4. ASSUME NEW l \in BOOLEAN, SetLocked(l), exists' \in BOOLEAN, ~l => exists',
             UNCHANGED <<reg, timer, deaths>>
      PROVE  AgentTypes' /\ (~locked' => exists')
  BY <1>0, <1>4, SetLockedFacts DEF AgentTypes
<1>5. CASE RunInstall(e, s)
  <2>1. /\ op \in {"create", "unlock", "rotate"} /\ task[e][s].pc = "run"
        /\ UNCHANGED <<editorVars, inbox, reg, timer, deaths>> /\ exists' = TRUE
    BY <1>5 DEF RunInstall, Runs
  <2>2. PICK l \in BOOLEAN : ~l /\ SetLocked(l)
    BY <1>5, Zenon DEF RunInstall
  <2>3. PICK ok \in BOOLEAN : Result(e, s, "announce", Done(s, ok))
    BY <1>5, Zenon DEF RunInstall
  <2>4. /\ task'[e][s].op = op /\ task'[e][s].pc = "announce"
        /\ task' \in [Editors -> [Slots -> Tasks]] /\ Handled'
        /\ \A d \in Editors, z \in Slots :
               d # e \/ z # s => task'[d][z] = task[d][z]
    BY <1>1, <1>2, <2>1, <2>3
  <2>5. AgentTypes' /\ (~locked' => exists')
    BY <1>4, <2>1, <2>2
  <2> QED BY <2>1, <2>2, <2>4, <2>5 DEF Changed
<1>6. CASE RunFails(e, s)
  <2>1. /\ op \in {"create", "unlock", "rotate"} /\ task[e][s].pc = "run"
        /\ UNCHANGED <<editorVars, inbox, agentVars>>
    BY <1>6 DEF RunFails, Runs
  <2>2. PICK ok \in BOOLEAN : ~ok /\ Result(e, s, "reply", Done(s, ok))
    BY <1>6, Zenon DEF RunFails
  <2>3. /\ task'[e][s].op = op /\ task'[e][s].pc = "reply"
        /\ task'[e][s].answer = Done(s, ok)
        /\ task' \in [Editors -> [Slots -> Tasks]] /\ Handled'
        /\ \A d \in Editors, z \in Slots :
               d # e \/ z # s => task'[d][z] = task[d][z]
    BY <1>1, <1>2, <2>1, <2>2
  <2>4. AgentTypes' /\ (~locked' => exists')
    BY <1>0, <2>1 DEF AgentTypes, agentVars, readVars
  <2>5. task'[e][s].answer = Done(s, FALSE)
    BY <2>2, <2>3
  <2> QED BY <2>1, <2>3, <2>4, <2>5 DEF Left
<1>7. CASE RunLock(e, s)
  <2>1. /\ op = "lock" /\ task[e][s].pc = "run" /\ s \notin Flows
        /\ UNCHANGED <<editorVars, inbox, reg, exists, timer, deaths>>
    BY <1>0, <1>7 DEF RunLock, Runs
  <2>2. PICK l \in BOOLEAN : l /\ SetLocked(l)
    BY <1>7, Zenon DEF RunLock
  <2>3. PICK ok \in BOOLEAN :
            Result(e, s, IF locked THEN "reply" ELSE "announce", Done(s, ok))
    BY <1>7, Zenon DEF RunLock
  <2>4. /\ task'[e][s].op = op
        /\ task'[e][s].pc = IF locked THEN "reply" ELSE "announce"
        /\ task' \in [Editors -> [Slots -> Tasks]] /\ Handled'
        /\ \A d \in Editors, z \in Slots :
               d # e \/ z # s => task'[d][z] = task[d][z]
    BY <1>1, <1>2, <2>1, <2>3
  <2>5. AgentTypes' /\ (~locked' => exists')
    <3>1. exists' \in BOOLEAN
      BY <2>1 DEF TypeOK, AgentTypes
    <3> QED BY <1>4, <2>1, <2>2, <3>1
  <2>6. CASE locked
    BY <2>1, <2>2, <2>4, <2>5, <2>6 DEF Left
  <2>7. CASE ~locked
    BY <2>1, <2>2, <2>4, <2>5, <2>7 DEF Changed
  <2> QED BY <2>6, <2>7
<1> QED BY <1>3, <1>5, <1>6, <1>7

\* A cancel releases the parked reader, or comes too early for it.
LEMMA CancelFacts ==
    ASSUME TypeOK, Handled, NEW e \in Editors, NEW s \in Slots, RunCancel(e, s)
    PROVE  /\ UNCHANGED <<editorVars, inbox, reg, locked, exists, timer, deaths, raced>>
           /\ AgentTypes' /\ s \notin Flows /\ task[e][s].pc = "run"
           /\ reader' \in {reader, "idle"} /\ heard' \subseteq heard
           /\ reader = "parked" => reader' = "idle"
           /\ reader = "capture" => missed'
           /\ task' \in [Editors -> [Slots -> Tasks]] /\ Handled'
           /\ task'[e][s] = Idle
           /\ \A d \in Editors, z \in Slots :
                  d # e \/ z # s => task'[d][z] = task[d][z]
<1>1. /\ UNCHANGED <<editorVars, inbox, reg, locked, exists, timer, deaths, raced>>
      /\ task[e][s].pc = "run" /\ task[e][s].op = "cancel"
      /\ task' = [task EXCEPT ![e][s] = Idle]
  BY DEF RunCancel, Runs
<1>2. s \notin Flows
  BY <1>1 DEF Handled, Holds
<1>3. Holds(Idle, s)
  BY IdleFacts DEF Holds
<1>4. /\ task' \in [Editors -> [Slots -> Tasks]] /\ task'[e][s] = Idle
      /\ \A d \in Editors, z \in Slots :
             d # e \/ z # s => task'[d][z] = task[d][z]
  BY <1>1, IdleFacts DEF TypeOK
<1>h. Handled'
  BY <1>3, <1>4, TaskFacts
<1>5. missed \in BOOLEAN /\ reader \in {"idle", "signal", "capture", "parked"}
  BY DEF TypeOK, AgentTypes
<1>6. /\ reader' \in {reader, "idle"} /\ heard' \subseteq heard /\ missed' \in BOOLEAN
      /\ reader = "parked" => reader' = "idle"
      /\ reader = "capture" => missed'
  <2>1. CASE reader = "parked"
    BY <1>5, <2>1 DEF RunCancel, Released
  <2>2. CASE reader # "parked"
    <3>1. missed' = (missed \/ reader = "capture") /\ UNCHANGED <<reader, heard>>
      BY <2>2 DEF RunCancel
    <3> QED BY <1>5, <2>2, <3>1
  <2> QED BY <2>1, <2>2
<1>7. AgentTypes'
  BY <1>1, <1>5, <1>6 DEF TypeOK, AgentTypes
<1> QED BY <1>1, <1>2, <1>4, <1>h, <1>6, <1>7

\* A handler announces what it did and keeps its answer.
LEMMA AnnounceFacts ==
    ASSUME TypeOK, Handled, NEW e \in Editors, NEW s \in Slots, Announce(e, s)
    PROVE  /\ UNCHANGED <<editorVars, agentVars>>
           /\ \E l \in BOOLEAN : Broadcast(State(l)) /\ (l <=> task[e][s].op = "lock")
           /\ task[e][s].pc = "announce" /\ task[e][s].op # "status"
           /\ task'[e][s].pc = "reply" /\ task'[e][s].op = task[e][s].op
           /\ task'[e][s].answer = task[e][s].answer
           /\ task' \in [Editors -> [Slots -> Tasks]] /\ Handled'
           /\ \A d \in Editors, z \in Slots :
                  d # e \/ z # s => task'[d][z] = task[d][z]
<1>1. /\ UNCHANGED <<editorVars, agentVars>> /\ task[e][s].pc = "announce"
      /\ Broadcast(State(task[e][s].op = "lock"))
      /\ task' = [task EXCEPT ![e][s].pc = "reply"]
      /\ task \in [Editors -> [Slots -> Tasks]]
  BY DEF Announce, TypeOK
<1>2. PICK t \in Tasks : /\ t = [task[e][s] EXCEPT !.pc = "reply"]
                         /\ t.pc = "reply" /\ t.op = task[e][s].op
                         /\ t.answer = task[e][s].answer
  BY <1>1, SMTT(30) DEF Tasks
<1>3. task' = [task EXCEPT ![e][s] = t]
  BY <1>1, <1>2
<1>4. Holds(t, s) /\ task[e][s].op # "status"
  BY <1>1, <1>2 DEF Handled, Holds
<1>5. /\ task' \in [Editors -> [Slots -> Tasks]] /\ task'[e][s] = t
      /\ \A d \in Editors, z \in Slots :
             d # e \/ z # s => task'[d][z] = task[d][z]
  BY <1>1, <1>3
<1>h. Handled'
  BY <1>4, <1>5, TaskFacts
<1>6. \E l \in BOOLEAN : Broadcast(State(l)) /\ (l <=> task[e][s].op = "lock")
  <2>1. (task[e][s].op = "lock") \in BOOLEAN
    OBVIOUS
  <2> QED BY <1>1, <2>1, Zenon
<1> QED BY <1>1, <1>2, <1>4, <1>5, <1>h, <1>6

\* A handler appends its answer to the socket of its own editor.
LEMMA ReplyFacts ==
    ASSUME TypeOK, Handled, NEW e \in Editors, NEW s \in Slots, Reply(e, s)
    PROVE  /\ UNCHANGED <<editorVars, agentVars>>
           /\ task[e][s].pc = "reply" /\ task'[e][s] = Idle
           /\ task[e][s].answer \in Messages /\ Replies(task[e][s].answer, s)
           /\ inbox' \in [Editors -> Seq(Messages)]
           /\ \A d \in Editors : d # e => inbox'[d] = inbox[d]
           /\ \/ inbox'[e] = inbox[e] /\ (e \notin reg \/ s = "lock")
              \/ /\ e \in reg /\ Len(inbox[e]) \in Nat
                 /\ Len(inbox'[e]) = Len(inbox[e]) + 1
                 /\ \A i \in 1..Len(inbox[e]) : inbox'[e][i] = inbox[e][i]
                 /\ inbox'[e][Len(inbox[e]) + 1] = task[e][s].answer
           /\ task' \in [Editors -> [Slots -> Tasks]] /\ Handled'
           /\ \A d \in Editors, z \in Slots :
                  d # e \/ z # s => task'[d][z] = task[d][z]
<1> DEFINE a == task[e][s].answer
<1>1. /\ UNCHANGED <<editorVars, agentVars>> /\ task[e][s].pc = "reply"
      /\ task' = [task EXCEPT ![e][s] = Idle]
      /\ inbox' = IF e \in reg /\ s # "lock"
                  THEN [inbox EXCEPT ![e] = Append(@, a)] ELSE inbox
      /\ task \in [Editors -> [Slots -> Tasks]] /\ inbox \in [Editors -> Seq(Messages)]
  BY DEF Reply, TypeOK
<1>2. a \in Messages /\ Replies(a, s)
  BY <1>1, IdleFacts, MessageFacts DEF Handled, Holds
<1>3. Holds(Idle, s)
  BY IdleFacts DEF Holds
<1>4. /\ task' \in [Editors -> [Slots -> Tasks]] /\ task'[e][s] = Idle
      /\ \A d \in Editors, z \in Slots :
             d # e \/ z # s => task'[d][z] = task[d][z]
  BY <1>1, IdleFacts DEF TypeOK
<1>h. Handled'
  BY <1>3, <1>4, TaskFacts
<1> HIDE DEF a
<1>5. CASE e \in reg /\ s # "lock"
  <2>1. /\ Append(inbox[e], a) \in Seq(Messages)
        /\ Len(inbox[e]) \in Nat /\ Len(Append(inbox[e], a)) = Len(inbox[e]) + 1
        /\ \A i \in 1..Len(inbox[e]) : Append(inbox[e], a)[i] = inbox[e][i]
        /\ Append(inbox[e], a)[Len(inbox[e]) + 1] = a
    <3>1. inbox[e] \in Seq(Messages)
      BY <1>1
    <3> QED BY <1>2, <3>1, AppendFacts
  <2>2. /\ inbox'[e] = Append(inbox[e], a)
        /\ \A d \in Editors : d # e => inbox'[d] = inbox[d]
    BY <1>1, <1>5
  <2>3. inbox' \in [Editors -> Seq(Messages)]
    BY <1>1, <1>5, <2>1
  <2> QED BY <1>1, <1>2, <1>4, <1>h, <1>5, <2>1, <2>2, <2>3 DEF a
<1>6. CASE ~(e \in reg /\ s # "lock")
  BY <1>1, <1>2, <1>4, <1>h, <1>6 DEF a
<1> QED BY <1>5, <1>6

\* A request without a flow: `lock`, or the lock on exit.
LEMMA CallFacts ==
    ASSUME TypeOK, PromptingAlive, Handled, NEW e \in Editors, LockCall(e) \/ ExitLocks(e)
    PROVE  /\ ed[e] = "up" /\ UNCHANGED <<unlocked, prompting, flow, inbox, agentVars>>
           /\ UNCHANGED ed \/ ed' = [ed EXCEPT ![e] = "leaving"]
           /\ task[e]["lock"] = Idle \/ ed'[e] = "leaving"
           /\ \E s \in {"lock", "exit"} :
                  /\ s = "lock" => task[e][s] = Idle
                  /\ s = "exit" => ed'[e] = "leaving"
                  /\ task'[e][s].pc \in {"waiter", "lost", "run"}
                  /\ task'[e][s].pc = "run" => e \in reg
                  /\ \A d \in Editors, z \in Slots :
                         d # e \/ z # s => task'[d][z] = task[d][z]
           /\ task' \in [Editors -> [Slots -> Tasks]] /\ Handled' /\ PromptingAlive'
           /\ conn' \in [Editors -> {"down", "dialing", "up", "ready"}]
           /\ \A d \in Editors :
                  \/ conn'[d] = conn[d]
                  \/ d = e /\ conn[d] = "down" /\ conn'[d] = "dialing"
<1>0. {"lock", "exit"} \subseteq Slots \ Flows /\ "lock" \in Ops /\ "lock" # "none"
  BY PromptAssumption DEF Slots, Ops
<1>1. PICK s \in {"lock", "exit"}, good \in BOOLEAN :
          /\ Request(e, s, "lock", good)
          /\ s = "lock" => LockCall(e)
          /\ s = "exit" => ExitLocks(e)
  BY Zenon DEF LockCall, ExitLocks
<1>2. s \in Slots /\ s \notin Flows
  BY <1>0
<1>3. /\ task' \in [Editors -> [Slots -> Tasks]] /\ Handled'
      /\ task'[e][s].pc \in {"waiter", "run", "lost"}
      /\ task'[e][s].pc = "run" => e \in reg
      /\ \A d \in Editors, z \in Slots :
             d # e \/ z # s => task'[d][z] = task[d][z]
      /\ conn' \in [Editors -> {"down", "dialing", "up", "ready"}]
      /\ \A d \in Editors :
             \/ conn'[d] = conn[d]
             \/ d = e /\ conn[d] = "down" /\ conn'[d] = "dialing"
  BY <1>0, <1>1, <1>2, RequestFacts
<1>4. /\ ed[e] = "up" /\ UNCHANGED <<unlocked, prompting, flow, inbox, agentVars>>
      /\ UNCHANGED ed \/ ed' = [ed EXCEPT ![e] = "leaving"]
      /\ LockCall(e) => task[e]["lock"] = Idle
      /\ ExitLocks(e) => ed'[e] = "leaving"
  BY DEF LockCall, ExitLocks, TypeOK, EditorTypes
<1>5. PromptingAlive'
  BY <1>4 DEF PromptingAlive
<1> QED BY <1>1, <1>3, <1>4, <1>5

\* The signal finds a prompt, or an unlocked vault, or opens the prompt.
LEMMA NeededFacts ==
    ASSUME TypeOK, PromptingAlive, NEW e \in Editors, OnNeeded(e)
    PROVE  /\ ed[e] \in {"up", "leaving"} /\ inbox[e] # <<>> /\ Pop(e)
           /\ Head(inbox[e]).kind = "needed" /\ UNCHANGED <<ed, unlocked, agentVars>>
           /\ \/ /\ prompting[e] \/ unlocked[e]
                 /\ UNCHANGED <<prompting, flow, task, conn>>
              \/ /\ flow[e][Signal] = "none" /\ flow'[e][Signal] = "status"
                 /\ Advances(e, Signal, FALSE)
                 /\ prompting'[e]
<1>1. /\ ed[e] \in {"up", "leaving"} /\ inbox[e] # <<>> /\ Pop(e)
      /\ Head(inbox[e]).kind = "needed" /\ UNCHANGED <<ed, unlocked, agentVars>>
  BY DEF OnNeeded, Takes
<1>2. CASE (prompting[e] \/ unlocked[e]) /\ UNCHANGED <<prompting, flow>> /\ NoRequest
  BY <1>1, <1>2 DEF NoRequest
<1>3. CASE /\ ~(prompting[e] \/ unlocked[e])
           /\ prompting' = [prompting EXCEPT ![e] = TRUE]
           /\ flow' = [flow EXCEPT ![e][Signal] = "status"]
           /\ Request(e, Signal, "status", FALSE)
  <2>1. /\ prompting \in [Editors -> BOOLEAN] /\ Signal \in Flows
        /\ flow \in [Editors -> [Flows -> Stages]]
        /\ "status" \in Waiting /\ "status" \in FlowOps /\ "status" \in Looks
    BY PromptAssumption DEF TypeOK, EditorTypes, Stages, Waiting, FlowOps, Looks
  <2>2. flow[e][Signal] = "none" /\ flow'[e][Signal] = "status" /\ prompting'[e]
    BY <1>3, <2>1 DEF PromptingAlive
  <2>3. prompting' = [prompting EXCEPT ![e] = @ \/ Signal = Signal]
    BY <1>3
  <2>4. PICK good \in BOOLEAN : Request(e, Signal, "status", good)
    BY <1>3, Zenon
  <2>5. Advances(e, Signal, FALSE)
    BY <1>3, <2>1, <2>3, <2>4 DEF Advances
  <2> QED BY <1>1, <2>2, <2>5
<1> QED BY <1>2, <1>3 DEF OnNeeded

\* The handshake seeds the cache and starts the requests that waited.
LEMMA HelloFacts ==
    ASSUME TypeOK, Handled, NEW e \in Editors, OnHello(e)
    PROVE  /\ ed[e] \in {"up", "leaving"} /\ inbox[e] # <<>> /\ Pop(e)
           /\ Replies(Head(inbox[e]), "hello")
           /\ unlocked' = [unlocked EXCEPT ![e] = ~Head(inbox[e]).locked]
           /\ conn' \in [Editors -> {"down", "dialing", "up", "ready"}]
           /\ conn'[e] = "ready" /\ \A d \in Editors \ {e} : conn'[d] = conn[d]
           /\ UNCHANGED <<ed, prompting, flow, agentVars>>
           /\ task' \in [Editors -> [Slots -> Tasks]] /\ Handled'
           /\ \A d \in Editors \ {e}, s \in Slots : task'[d][s] = task[d][s]
           /\ \A s \in Slots :
                  \/ task'[e][s] = task[e][s]
                  \/ /\ task[e][s].pc = "waiter" /\ task'[e][s].op = task[e][s].op
                     /\ \/ task'[e][s].pc = "run" /\ e \in reg
                        \/ task'[e][s].pc = "lost"
<1>0. /\ task \in [Editors -> [Slots -> Tasks]]
      /\ conn \in [Editors -> {"down", "dialing", "up", "ready"}]
  BY DEF TypeOK, EditorTypes
<1>1. /\ ed[e] \in {"up", "leaving"} /\ inbox[e] # <<>> /\ Pop(e)
      /\ Replies(Head(inbox[e]), "hello")
      /\ unlocked' = [unlocked EXCEPT ![e] = ~Head(inbox[e]).locked]
      /\ UNCHANGED <<ed, prompting, flow, agentVars>>
  BY DEF OnHello, Takes, Replies
<1>2. /\ conn' \in [Editors -> {"down", "dialing", "up", "ready"}]
      /\ conn'[e] = "ready" /\ \A d \in Editors \ {e} : conn'[d] = conn[d]
  BY <1>0 DEF OnHello
<1> DEFINE pc == IF e \in reg THEN "run" ELSE "lost"
           next(t) == IF t.pc # "waiter" THEN t ELSE [t EXCEPT !.pc = pc]
<1>3. task' = [task EXCEPT ![e] = [s \in Slots |-> next(task[e][s])]]
  BY DEF OnHello
<1>4. ASSUME NEW t \in Tasks
      PROVE  /\ next(t) \in Tasks
             /\ \/ next(t) = t
                \/ /\ t.pc = "waiter" /\ next(t).op = t.op
                   /\ \/ next(t).pc = "run" /\ e \in reg
                      \/ next(t).pc = "lost"
  <2>1. CASE t.pc # "waiter"
    BY <2>1
  <2>2. CASE t.pc = "waiter"
    <3>1. pc \in {"run", "lost"} /\ (pc = "run" => e \in reg) /\ next(t) = [t EXCEPT !.pc = pc]
      BY <2>2
    <3> HIDE DEF pc
    <3>2. [t EXCEPT !.pc = pc] \in Tasks /\ [t EXCEPT !.pc = pc].pc = pc
          /\ [t EXCEPT !.pc = pc].op = t.op
      BY <2>2, <3>1 DEF Tasks
    <3> HIDE DEF next
    <3> QED BY <2>2, <3>1, <3>2
  <2> QED BY <2>1, <2>2
<1> HIDE DEF next, pc
<1>5. /\ task' \in [Editors -> [Slots -> Tasks]]
      /\ \A d \in Editors \ {e}, s \in Slots : task'[d][s] = task[d][s]
      /\ \A s \in Slots : task'[e][s] = next(task[e][s])
  BY <1>0, <1>3, <1>4
<1>6. \A s \in Slots :
          \/ task'[e][s] = task[e][s]
          \/ /\ task[e][s].pc = "waiter" /\ task'[e][s].op = task[e][s].op
             /\ \/ task'[e][s].pc = "run" /\ e \in reg
                \/ task'[e][s].pc = "lost"
  BY <1>0, <1>4, <1>5
<1>7. Handled'
  <2> SUFFICES ASSUME NEW d \in Editors, NEW z \in Slots
               PROVE  Holds(task'[d][z], z)
    BY DEF Handled, Holds, Replies, Outcomes, Done, Idle
  <2>1. CASE task'[d][z] = task[d][z]
    BY <2>1 DEF Handled
  <2>2. CASE task'[d][z] # task[d][z]
    BY <1>5, <1>6, <2>2 DEF Handled, Holds
  <2> QED BY <2>1, <2>2
<1> QED BY <1>1, <1>2, <1>5, <1>6, <1>7

\* A connection starts empty, with the handshake as its only request.
LEMMA ConnectFacts ==
    ASSUME TypeOK, Handled, NEW e \in Editors, Connect(e)
    PROVE  /\ conn[e] = "dialing" /\ ed[e] \in {"up", "leaving"} /\ e \notin reg
           /\ inbox[e] = <<>> /\ reg' = reg \cup {e}
           /\ conn' \in [Editors -> {"down", "dialing", "up", "ready"}]
           /\ conn'[e] = "up" /\ \A d \in Editors \ {e} : conn'[d] = conn[d]
           /\ UNCHANGED <<ed, unlocked, prompting, flow, inbox, locked, exists, timer,
                          readVars, deaths, raced>>
           /\ task' \in [Editors -> [Slots -> Tasks]] /\ Handled'
           /\ task'[e]["hello"].pc = "run" /\ task'[e]["hello"].op = "status"
           /\ \A d \in Editors, z \in Slots :
                  d # e \/ z # "hello" => task'[d][z] = task[d][z]
<1>0. /\ task \in [Editors -> [Slots -> Tasks]] /\ "hello" \in Slots
      /\ conn \in [Editors -> {"down", "dialing", "up", "ready"}]
  BY DEF TypeOK, EditorTypes, Slots
<1>1. /\ conn[e] = "dialing" /\ ed[e] \in {"up", "leaving"} /\ e \notin reg
      /\ inbox[e] = <<>> /\ reg' = reg \cup {e}
      /\ UNCHANGED <<ed, unlocked, prompting, flow, inbox, locked, exists, timer,
                     readVars, deaths, raced>>
  BY DEF Connect, TypeOK, EditorTypes
<1>2. /\ conn' \in [Editors -> {"down", "dialing", "up", "ready"}]
      /\ conn'[e] = "up" /\ \A d \in Editors \ {e} : conn'[d] = conn[d]
  BY <1>0 DEF Connect
<1>3. PICK good \in BOOLEAN :
          task' = [task EXCEPT ![e]["hello"] =
                      [op |-> "status", pc |-> "run", good |-> good]]
  BY Zenon DEF Connect
<1>4. PICK t \in Tasks : t = [op |-> "status", pc |-> "run", good |-> good]
  BY DEF Tasks, Ops
<1>5. /\ task' \in [Editors -> [Slots -> Tasks]] /\ task'[e]["hello"] = t
      /\ \A d \in Editors, z \in Slots :
             d # e \/ z # "hello" => task'[d][z] = task[d][z]
  BY <1>0, <1>3, <1>4
<1>6. t.op = "status" /\ t.pc = "run" /\ Holds(t, "hello")
  BY <1>4 DEF Holds
<1>7. Handled'
  BY <1>0, <1>5, <1>6, TaskFacts
<1> QED BY <1>1, <1>2, <1>5, <1>6, <1>7

\* A death of the agent empties its table and loses what it worked on.
LEMMA DeathFacts ==
    ASSUME TypeOK, Handled, AgentDies
    PROVE  /\ UNCHANGED <<editorVars, inbox, exists, raced>> /\ reg' = {} /\ locked'
           /\ AgentTypes' /\ timer' = "idle" /\ reader' = "idle" /\ heard' = {}
           /\ task' \in [Editors -> [Slots -> Tasks]] /\ Handled'
           /\ \A d \in Editors, s \in Slots :
                  \/ /\ task'[d][s] = task[d][s]
                     /\ task'[d][s].pc \notin {"run", "announce", "reply"}
                  \/ /\ task[d][s].pc \in {"run", "announce", "reply"}
                     /\ task'[d][s] = Idle \/ task'[d][s].pc = "lost"
                     /\ task'[d][s].op = "none"
<1>0. /\ task \in [Editors -> [Slots -> Tasks]] /\ AgentTypes
  BY DEF TypeOK
<1>1. /\ UNCHANGED <<editorVars, inbox, exists, raced>> /\ reg' = {} /\ locked' = TRUE
      /\ timer' = "idle" /\ reader' = "idle" /\ heard' = {} /\ UNCHANGED missed
      /\ deaths < MaxDeaths /\ deaths' = deaths + 1
  BY DEF AgentDies, Released
<1>2. AgentTypes'
  BY <1>0, <1>1, PromptAssumption DEF AgentTypes
<1> DEFINE end(d) == [Idle EXCEPT !.pc = IF d \in reg THEN "lost" ELSE "none"]
<1>3. \A d : /\ end(d) \in Tasks /\ end(d).op = "none"
             /\ end(d) = Idle \/ end(d).pc = "lost"
  <2>1. \A pc \in {"none", "lost"} : LET t == [Idle EXCEPT !.pc = pc]
                                     IN  t \in Tasks /\ t.op = "none" /\ t.pc = pc
    BY DEF Idle, Tasks, Ops
  <2>2. [Idle EXCEPT !.pc = "none"] = Idle
    BY DEF Idle
  <2>3. SUFFICES ASSUME NEW d
                 PROVE  /\ end(d) \in Tasks /\ end(d).op = "none"
                        /\ end(d) = Idle \/ end(d).pc = "lost"
    OBVIOUS
  <2>4. CASE d \in reg
    <3>1. end(d) = [Idle EXCEPT !.pc = "lost"]
      BY <2>4
    <3> HIDE DEF end
    <3> QED BY <2>1, <3>1
  <2>5. CASE d \notin reg
    <3>1. end(d) = [Idle EXCEPT !.pc = "none"]
      BY <2>5
    <3> HIDE DEF end
    <3> QED BY <2>1, <2>2, <3>1
  <2> QED BY <2>4, <2>5
<1>4. task' = [d \in Editors |-> [s \in Slots |->
          IF task[d][s].pc \notin {"run", "announce", "reply"} THEN task[d][s] ELSE end(d)]]
  BY DEF AgentDies
<1> HIDE DEF end
<1>5. \A d \in Editors, s \in Slots :
          task'[d][s] = IF task[d][s].pc \notin {"run", "announce", "reply"}
                        THEN task[d][s] ELSE end(d)
  BY <1>4
<1>6. task' \in [Editors -> [Slots -> Tasks]]
  BY <1>0, <1>3, <1>4
<1>7. \A d \in Editors, s \in Slots :
          \/ /\ task'[d][s] = task[d][s]
             /\ task'[d][s].pc \notin {"run", "announce", "reply"}
          \/ /\ task[d][s].pc \in {"run", "announce", "reply"}
             /\ task'[d][s] = Idle \/ task'[d][s].pc = "lost"
             /\ task'[d][s].op = "none"
  BY <1>3, <1>5
<1>8. Handled'
  <2> SUFFICES ASSUME NEW d \in Editors, NEW z \in Slots
               PROVE  Holds(task'[d][z], z)
    BY DEF Handled, Holds, Replies, Outcomes, Done, Idle
  <2>1. CASE task'[d][z] = task[d][z]
    BY <2>1 DEF Handled
  <2>2. CASE task'[d][z] # task[d][z]
    BY <1>7, <2>2, IdleFacts DEF Holds
  <2> QED BY <2>1, <2>2
<1> QED BY <1>1, <1>2, <1>6, <1>7, <1>8

-----------------------------------------------------------------------------
(* Every step keeps the types, the prompt flag and what the handlers hold. *)

\* Every step keeps the types, the flag and what the handlers hold.
LEMMA BasicsStep ==
    ASSUME IInv, [Next]_vars
    PROVE  TypeOK' /\ PromptingAlive' /\ Handled'
<1>0. TypeOK /\ PromptingAlive /\ Handled /\ events' \in 0..MaxEvents
  BY EventsType DEF IInv
<1>i. /\ ed \in [Editors -> {"off", "up", "leaving", "gone"}]
      /\ unlocked \in [Editors -> BOOLEAN] /\ prompting \in [Editors -> BOOLEAN]
      /\ flow \in [Editors -> [Flows -> Stages]]
      /\ conn \in [Editors -> {"down", "dialing", "up", "ready"}]
      /\ inbox \in [Editors -> Seq(Messages)] /\ task \in [Editors -> [Slots -> Tasks]]
      /\ locked \in BOOLEAN /\ AgentTypes /\ (~locked => exists)
  BY <1>0 DEF TypeOK, EditorTypes, AgentTypes, Stages
<1>1. ASSUME NEW e \in Editors, inbox[e] # <<>>, Pop(e)
      PROVE  /\ inbox' \in [Editors -> Seq(Messages)]
             /\ \A d \in Editors : inbox[d] = <<>> => inbox'[d] = <<>>
  BY <1>0, <1>1, PopFacts
<1>2. ASSUME NEW e \in Editors, NEW f \in Flows, Chooses(e, f)
      PROVE  TypeOK' /\ PromptingAlive' /\ Handled'
  <2>1. /\ ed[e] = "up" /\ UNCHANGED <<ed, unlocked, inbox, agentVars>>
        /\ Advances(e, f, FALSE)
        /\ f = Signal /\ flow'[e][f] \in Asking => flow[e][f] # "none"
    BY <1>2 DEF Chooses
  <2>2. PICK ok \in BOOLEAN : Advances(e, f, ok)
    BY <2>1, Zenon
  <2>3. /\ flow' \in [Editors -> [Flows -> Stages]] /\ prompting' \in [Editors -> BOOLEAN]
        /\ PromptingAlive' /\ task' \in [Editors -> [Slots -> Tasks]] /\ Handled'
        /\ conn' \in [Editors -> {"down", "dialing", "up", "ready"}]
        /\ \A d \in Editors :
               \/ conn'[d] = conn[d]
               \/ d = e /\ conn[d] = "down" /\ conn'[d] = "dialing"
    BY <1>0, <2>1, <2>2, AdvanceFacts
  <2>4. TypeOK'
    BY <1>0, <1>i, <2>1, <2>3, EditorKeepsTypes
  <2> QED BY <2>3, <2>4
<1>3. ASSUME NEW e \in Editors, NEW f \in Flows, NEW ok \in BOOLEAN, Handles(e, f, ok)
      PROVE  TypeOK' /\ PromptingAlive' /\ Handled'
  <2>1. /\ ed[e] \in {"up", "leaving"} /\ UNCHANGED <<ed, agentVars>>
        /\ inbox[e] # <<>> /\ Pop(e) /\ Advances(e, f, ok)
        /\ flow[e][f] \in Waiting
        /\ unlocked' = IF flow[e][f] = "ensure"
                       THEN [unlocked EXCEPT ![e] = ~Head(inbox[e]).locked]
                       ELSE unlocked
    BY <1>3 DEF Handles
  <2>2. flow[e][f] # "none"
    BY <2>1 DEF Waiting
  <2>3. /\ flow' \in [Editors -> [Flows -> Stages]] /\ prompting' \in [Editors -> BOOLEAN]
        /\ PromptingAlive' /\ task' \in [Editors -> [Slots -> Tasks]] /\ Handled'
        /\ conn' \in [Editors -> {"down", "dialing", "up", "ready"}]
        /\ \A d \in Editors :
               \/ conn'[d] = conn[d]
               \/ d = e /\ conn[d] = "down" /\ conn'[d] = "dialing"
    BY <1>0, <2>1, <2>2, AdvanceFacts
  <2>4. unlocked' \in [Editors -> BOOLEAN]
    BY <1>i, <2>1
  <2>5. TypeOK'
    BY <1>0, <1>1, <2>1, <2>3, <2>4, EditorKeepsTypes
  <2> QED BY <2>3, <2>5
<1>4. ASSUME NEW e \in Editors, Quits(e)
      PROVE  TypeOK' /\ PromptingAlive' /\ Handled'
  <2>1. UNCHANGED <<unlocked, locked, exists, timer, reader, heard, missed, deaths, raced>>
    BY <1>4 DEF Quits, readVars
  <2>2. /\ ed' \in [Editors -> {"off", "up", "leaving", "gone"}]
        /\ conn'[e] = "down" /\ inbox'[e] = <<>> /\ reg' = reg \ {e}
        /\ \A d \in Editors \ {e} :
               /\ ed'[d] = ed[d] /\ conn'[d] = conn[d] /\ inbox'[d] = inbox[d]
               /\ flow'[d] = flow[d] /\ prompting'[d] = prompting[d]
        /\ task' \in [Editors -> [Slots -> Tasks]] /\ Handled'
        /\ flow' \in [Editors -> [Flows -> Stages]]
        /\ conn' \in [Editors -> {"down", "dialing", "up", "ready"}]
        /\ inbox' \in [Editors -> Seq(Messages)]
        /\ prompting' \in [Editors -> BOOLEAN]
        /\ prompting'[e] = FALSE /\ \A f \in Flows : flow'[e][f] = "none"
    BY <1>0, <1>4, QuitFacts
  <2>3. EditorTypes'
    BY <1>0, <1>i, <2>1, <2>2 DEF TypeOK, EditorTypes, Stages
  <2>4. AgentTypes' /\ (~locked' => exists')
    BY <1>i, <2>1, <2>2 DEF AgentTypes
  <2>5. \A d \in Editors : conn'[d] \in {"down", "dialing"} =>
            d \notin reg' /\ inbox'[d] = <<>>
    BY <1>0, <2>2 DEF TypeOK
  <2>6. PromptingAlive'
    <3> SUFFICES ASSUME NEW d \in Editors
                 PROVE  prompting'[d] <=> flow'[d][Signal] # "none"
      BY DEF PromptingAlive
    <3>1. CASE d = e
      BY <2>2, <3>1, PromptAssumption
    <3>2. CASE d # e
      <4>1. prompting'[d] = prompting[d] /\ flow'[d][Signal] = flow[d][Signal]
        BY <2>2, <3>2
      <4>2. prompting[d] <=> flow[d][Signal] # "none"
        BY <1>0 DEF PromptingAlive
      <4> QED BY <4>1, <4>2
    <3> QED BY <3>1, <3>2
  <2> QED BY <2>2, <2>3, <2>4, <2>5, <2>6 DEF TypeOK
<1>5. ASSUME NEW e \in Editors, Loses(e)
      PROVE  TypeOK' /\ PromptingAlive' /\ Handled'
  <2>1. /\ ed[e] \in {"up", "leaving"} /\ e \notin reg /\ inbox[e] = <<>>
        /\ UNCHANGED <<ed, unlocked, inbox, agentVars>>
        /\ flow' \in [Editors -> [Flows -> Stages]]
        /\ \A d \in Editors \ {e} : conn'[d] = conn[d]
        /\ conn' \in [Editors -> {"down", "dialing", "up", "ready"}]
        /\ prompting' \in [Editors -> BOOLEAN] /\ PromptingAlive'
        /\ task' \in [Editors -> [Slots -> Tasks]] /\ Handled'
    BY <1>0, <1>5, LoseFacts
  <2>2. EditorTypes'
    BY <1>0, <1>i, <2>1 DEF TypeOK, EditorTypes, Stages
  <2>3. UNCHANGED <<reg, locked, exists, timer, reader, heard, missed, deaths, raced>>
    BY <2>1 DEF agentVars, readVars
  <2>4. AgentTypes' /\ (~locked' => exists')
    BY <1>i, <2>3 DEF AgentTypes
  <2>5. \A d \in Editors : conn'[d] \in {"down", "dialing"} =>
            d \notin reg' /\ inbox'[d] = <<>>
    BY <1>0, <2>1, <2>3 DEF TypeOK
  <2> QED BY <1>i, <2>1, <2>2, <2>4, <2>5 DEF TypeOK
<1>6. ASSUME NEW e \in Editors, Setup(e)
      PROVE  TypeOK' /\ PromptingAlive' /\ Handled'
  <2>1. /\ ed[e] = "off" /\ ed' = [ed EXCEPT ![e] = "up"]
        /\ conn' = [conn EXCEPT ![e] = "dialing"]
        /\ UNCHANGED <<unlocked, prompting, flow, inbox, task, agentVars>>
    BY <1>6 DEF Setup
  <2>2. UNCHANGED <<reg, locked, exists, timer, reader, heard, missed, deaths, raced>>
    BY <2>1 DEF agentVars, readVars
  <2>3. EditorTypes'
    BY <1>0, <1>i, <2>1 DEF TypeOK, EditorTypes, Stages
  <2>4. AgentTypes' /\ (~locked' => exists')
    BY <1>i, <2>2 DEF AgentTypes
  <2>5. \A d \in Editors : conn'[d] \in {"down", "dialing"} =>
            d \notin reg' /\ inbox'[d] = <<>>
    BY <1>0, <2>1, <2>2 DEF TypeOK, EditorTypes
  <2>6. PromptingAlive' /\ Handled'
    BY <1>0, <2>1 DEF PromptingAlive, Handled
  <2> QED BY <1>i, <2>1, <2>3, <2>4, <2>5, <2>6 DEF TypeOK
<1>7. ASSUME NEW e \in Editors, LockCall(e) \/ ExitLocks(e)
      PROVE  TypeOK' /\ PromptingAlive' /\ Handled'
  <2>1. /\ ed[e] = "up" /\ UNCHANGED <<unlocked, prompting, flow, inbox, agentVars>>
        /\ UNCHANGED ed \/ ed' = [ed EXCEPT ![e] = "leaving"]
        /\ task' \in [Editors -> [Slots -> Tasks]] /\ Handled' /\ PromptingAlive'
        /\ conn' \in [Editors -> {"down", "dialing", "up", "ready"}]
        /\ \A d \in Editors :
               \/ conn'[d] = conn[d]
               \/ d = e /\ conn[d] = "down" /\ conn'[d] = "dialing"
    BY <1>0, <1>7, CallFacts
  <2>2. TypeOK'
    BY <1>0, <1>i, <2>1, EditorKeepsTypes
  <2> QED BY <2>1, <2>2
<1>8. ASSUME NEW e \in Editors, OnState(e)
      PROVE  TypeOK' /\ PromptingAlive' /\ Handled'
  <2>1. /\ ed[e] \in {"up", "leaving"} /\ inbox[e] # <<>> /\ Pop(e)
        /\ unlocked' = [unlocked EXCEPT ![e] = ~Head(inbox[e]).locked]
        /\ UNCHANGED <<ed, prompting, flow, conn, task, agentVars>>
    BY <1>8 DEF OnState, Takes
  <2>2. unlocked' \in [Editors -> BOOLEAN]
    BY <1>i, <2>1
  <2>3. TypeOK'
    BY <1>0, <1>1, <1>i, <2>1, <2>2, EditorKeepsTypes
  <2>4. PromptingAlive' /\ Handled'
    BY <1>0, <2>1 DEF PromptingAlive, Handled
  <2> QED BY <2>3, <2>4
<1>9. ASSUME NEW e \in Editors, OnNeeded(e)
      PROVE  TypeOK' /\ PromptingAlive' /\ Handled'
  <2>1. /\ ed[e] \in {"up", "leaving"} /\ inbox[e] # <<>> /\ Pop(e)
        /\ UNCHANGED <<ed, unlocked, agentVars>>
        /\ \/ UNCHANGED <<prompting, flow, task, conn>>
           \/ flow'[e][Signal] = "status" /\ Advances(e, Signal, FALSE)
    BY <1>0, <1>9, NeededFacts
  <2>2. CASE UNCHANGED <<prompting, flow, task, conn>>
    <3>1. TypeOK'
      BY <1>0, <1>1, <1>i, <2>1, <2>2, EditorKeepsTypes
    <3>2. PromptingAlive' /\ Handled'
      BY <1>0, <2>2 DEF PromptingAlive, Handled
    <3> QED BY <3>1, <3>2
  <2>3. CASE flow'[e][Signal] = "status" /\ Advances(e, Signal, FALSE)
    <3>1. PICK ok \in BOOLEAN : Advances(e, Signal, ok)
      BY <2>3, Zenon
    <3>2. Signal \in Flows /\ flow'[e][Signal] \notin Asking
      BY <2>3, PromptAssumption DEF Asking
    <3>3. /\ flow' \in [Editors -> [Flows -> Stages]] /\ prompting' \in [Editors -> BOOLEAN]
          /\ PromptingAlive' /\ task' \in [Editors -> [Slots -> Tasks]] /\ Handled'
          /\ conn' \in [Editors -> {"down", "dialing", "up", "ready"}]
          /\ \A d \in Editors :
                 \/ conn'[d] = conn[d]
                 \/ d = e /\ conn[d] = "down" /\ conn'[d] = "dialing"
      BY <1>0, <3>1, <3>2, AdvanceFacts
    <3>4. TypeOK'
      BY <1>0, <1>1, <1>i, <2>1, <3>3, EditorKeepsTypes
    <3> QED BY <3>3, <3>4
  <2> QED BY <2>1, <2>2, <2>3
<1>10. ASSUME NEW e \in Editors, OnHello(e)
       PROVE  TypeOK' /\ PromptingAlive' /\ Handled'
  <2>1. /\ ed[e] \in {"up", "leaving"} /\ inbox[e] # <<>> /\ Pop(e)
        /\ unlocked' = [unlocked EXCEPT ![e] = ~Head(inbox[e]).locked]
        /\ conn' \in [Editors -> {"down", "dialing", "up", "ready"}]
        /\ conn'[e] = "ready" /\ \A d \in Editors \ {e} : conn'[d] = conn[d]
        /\ UNCHANGED <<ed, prompting, flow, agentVars>>
        /\ task' \in [Editors -> [Slots -> Tasks]] /\ Handled'
    BY <1>0, <1>10, HelloFacts
  <2>2. unlocked' \in [Editors -> BOOLEAN]
    BY <1>i, <2>1
  <2>3. TypeOK'
    BY <1>0, <1>1, <1>i, <2>1, <2>2, EditorKeepsTypes
  <2>4. PromptingAlive'
    BY <1>0, <2>1 DEF PromptingAlive
  <2> QED BY <2>1, <2>3, <2>4
<1>11. ASSUME NEW e \in Editors, Connect(e)
       PROVE  TypeOK' /\ PromptingAlive' /\ Handled'
  <2>1. /\ ed[e] \in {"up", "leaving"} /\ reg' = reg \cup {e}
        /\ conn' \in [Editors -> {"down", "dialing", "up", "ready"}]
        /\ conn'[e] = "up" /\ \A d \in Editors \ {e} : conn'[d] = conn[d]
        /\ UNCHANGED <<ed, unlocked, prompting, flow, inbox, locked, exists, timer,
                       readVars, deaths, raced>>
        /\ task' \in [Editors -> [Slots -> Tasks]] /\ Handled'
    BY <1>0, <1>11, ConnectFacts
  <2>2. EditorTypes'
    BY <1>0, <1>i, <2>1 DEF TypeOK, EditorTypes, Stages
  <2>3. AgentTypes' /\ (~locked' => exists')
    BY <1>i, <2>1 DEF AgentTypes, readVars
  <2>4. \A d \in Editors : conn'[d] \in {"down", "dialing"} =>
            d \notin reg' /\ inbox'[d] = <<>>
    BY <1>0, <2>1 DEF TypeOK
  <2>5. PromptingAlive'
    BY <1>0, <2>1 DEF PromptingAlive
  <2> QED BY <1>i, <2>1, <2>2, <2>3, <2>4, <2>5 DEF TypeOK
<1>12. ASSUME NEW e \in Editors, NEW s \in Slots, Serve(e, s)
       PROVE  TypeOK' /\ PromptingAlive' /\ Handled'
  <2>1. CASE RunStatus(e, s) \/ RunInstall(e, s) \/ RunFails(e, s) \/ RunLock(e, s)
    <3>1. /\ UNCHANGED <<editorVars, inbox>> /\ AgentTypes' /\ (~locked' => exists')
          /\ task' \in [Editors -> [Slots -> Tasks]] /\ Handled'
          /\ Looked(e, s) \/ Changed(e, s) \/ Left(e, s)
      BY <1>0, <2>1, RunFacts
    <3>2. UNCHANGED reg
      BY <3>1 DEF Looked, Changed, Left, agentVars
    <3> QED BY <1>0, <1>i, <3>1, <3>2, AgentKeepsTypes
  <2>2. CASE RunCancel(e, s)
    <3>1. /\ UNCHANGED <<editorVars, inbox, reg, locked, exists>> /\ AgentTypes'
          /\ task' \in [Editors -> [Slots -> Tasks]] /\ Handled'
      BY <1>0, <2>2, CancelFacts
    <3> QED BY <1>0, <1>i, <3>1, AgentKeepsTypes
  <2>3. ASSUME UNCHANGED agentVars
        PROVE  AgentTypes' /\ (~locked' => exists') /\ UNCHANGED reg
    BY <1>i, <2>3 DEF AgentTypes, agentVars, readVars
  <2>4. CASE Announce(e, s)
    <3>1. /\ UNCHANGED <<editorVars, agentVars>>
          /\ \E l \in BOOLEAN : Broadcast(State(l))
          /\ task' \in [Editors -> [Slots -> Tasks]] /\ Handled'
      BY <1>0, <2>4, AnnounceFacts
    <3>2. /\ inbox' \in [Editors -> Seq(Messages)]
          /\ \A d \in Editors \ reg : inbox'[d] = inbox[d]
      BY <1>0, <3>1, MessageFacts, BroadcastFacts
    <3> QED BY <1>0, <1>i, <2>3, <3>1, <3>2, AgentKeepsTypes
  <2>5. CASE Reply(e, s)
    <3>1. /\ UNCHANGED <<editorVars, agentVars>>
          /\ inbox' \in [Editors -> Seq(Messages)]
          /\ \A d \in Editors \ reg : inbox'[d] = inbox[d]
          /\ task' \in [Editors -> [Slots -> Tasks]] /\ Handled'
      BY <1>0, <2>5, ReplyFacts
    <3> QED BY <1>0, <1>i, <2>3, <3>1, AgentKeepsTypes
  <2> QED BY <1>12, <2>1, <2>2, <2>4, <2>5 DEF Serve
<1>13. CASE AutoLock
  <2>1. /\ UNCHANGED <<editorVars, inbox, task, reg, exists, deaths>> /\ ~locked
        /\ timer' = "announce"
    BY <1>13 DEF AutoLock
  <2>2. PICK l \in BOOLEAN : l /\ SetLocked(l)
    BY <1>13, Zenon DEF AutoLock
  <2>3. AgentTypes' /\ (~locked' => exists')
    BY <1>0, <1>i, <2>1, <2>2, SetLockedFacts DEF AgentTypes
  <2>4. Handled'
    BY <1>0, <2>1 DEF Handled
  <2> QED BY <1>0, <1>i, <2>1, <2>3, <2>4, AgentKeepsTypes
<1>14. CASE AutoAnnounce
  <2>1. /\ UNCHANGED <<editorVars, task, reg, locked, exists, readVars, deaths, raced>>
        /\ timer' = "idle" /\ \E l \in BOOLEAN : Broadcast(State(l))
    BY <1>14, Zenon DEF AutoAnnounce
  <2>2. /\ inbox' \in [Editors -> Seq(Messages)]
        /\ \A d \in Editors \ reg : inbox'[d] = inbox[d]
    BY <1>0, <2>1, MessageFacts, BroadcastFacts
  <2>3. AgentTypes' /\ (~locked' => exists')
    BY <1>i, <2>1 DEF AgentTypes, readVars
  <2>4. Handled'
    BY <1>0, <2>1 DEF Handled
  <2> QED BY <1>0, <1>i, <2>1, <2>2, <2>3, <2>4, AgentKeepsTypes
<1>15. CASE ReadSignals
  <2>1. /\ UNCHANGED <<editorVars, task, reg, locked, exists, timer, deaths, raced>>
        /\ reader' = "capture" /\ heard' \subseteq reg /\ missed' \in BOOLEAN
        /\ Broadcast(Needed)
    BY <1>15 DEF ReadSignals
  <2>2. /\ inbox' \in [Editors -> Seq(Messages)]
        /\ \A d \in Editors \ reg : inbox'[d] = inbox[d]
    BY <1>0, <2>1, MessageFacts, BroadcastFacts
  <2>3. AgentTypes' /\ (~locked' => exists')
    BY <1>i, <2>1 DEF AgentTypes
  <2>4. Handled'
    BY <1>0, <2>1 DEF Handled
  <2> QED BY <1>0, <1>i, <2>1, <2>2, <2>3, <2>4, AgentKeepsTypes
<1>16. CASE Read \/ ReadParks \/ ReadGivesUp
  <2>1. /\ UNCHANGED <<editorVars, inbox, task, reg, locked, exists, timer, deaths, raced>>
        /\ reader' \in {"idle", "signal", "parked"}
        /\ heard' \subseteq heard /\ missed' \in BOOLEAN
    BY <1>16, <1>i DEF Read, ReadParks, ReadGivesUp, Released, AgentTypes
  <2>2. AgentTypes' /\ (~locked' => exists')
    BY <1>i, <2>1 DEF AgentTypes
  <2>3. Handled'
    BY <1>0, <2>1 DEF Handled
  <2> QED BY <1>0, <1>i, <2>1, <2>2, <2>3, AgentKeepsTypes
<1>17. CASE AgentDies
  <2>1. /\ UNCHANGED <<editorVars, inbox>> /\ reg' = {} /\ locked' /\ AgentTypes'
        /\ task' \in [Editors -> [Slots -> Tasks]] /\ Handled'
    BY <1>0, <1>17, DeathFacts
  <2> QED BY <1>0, <1>i, <2>1, AgentKeepsTypes
<1>18. CASE UNCHANGED vars
  <2>1. UNCHANGED <<editorVars, inbox, task, reg, locked, exists, timer, deaths, raced>>
        /\ UNCHANGED <<reader, heard, missed>>
    BY <1>18 DEF vars, editorVars, readVars
  <2>2. AgentTypes' /\ (~locked' => exists')
    BY <1>i, <2>1 DEF AgentTypes
  <2>3. Handled'
    BY <1>0, <2>1 DEF Handled
  <2> QED BY <1>0, <1>i, <2>1, <2>2, <2>3, AgentKeepsTypes
<1> QED BY <1>2, <1>3, <1>4, <1>5, <1>6, <1>7, <1>8, <1>9, <1>10, <1>11, <1>12,
           <1>13, <1>14, <1>15, <1>16, <1>17, <1>18, StepKinds

-----------------------------------------------------------------------------
(* Every step keeps the flows and their requests together.                 *)

\* No answer to f arrives: what is left of the inbox has moved up by h.
Shifts(e, f) ==
    \E h \in {0, 1} :
        \A i \in 1..Len(inbox'[e]) :
            Replies(inbox'[e][i], f) =>
                i + h \in 1..Len(inbox[e]) /\ inbox'[e][i] = inbox[e][i + h]

\* Taking the first message leaves no answer behind that was not there.
LEMMA ShiftFacts ==
    ASSUME TypeOK, NEW e \in Editors, NEW f
    PROVE  /\ Len(inbox[e]) \in Nat
           /\ inbox'[e] = inbox[e] => Shifts(e, f)
           /\ inbox'[e] = <<>> => Shifts(e, f)
           /\ inbox[e] # <<>> /\ Pop(e) => Shifts(e, f)
           /\ /\ Len(inbox'[e]) = Len(inbox[e]) + 1
              /\ \A i \in 1..Len(inbox[e]) : inbox'[e][i] = inbox[e][i]
              /\ ~Replies(inbox'[e][Len(inbox[e]) + 1], f)
              => Shifts(e, f)
<1>1. Len(inbox[e]) \in Nat
  BY DEF TypeOK
<1>2. inbox'[e] = inbox[e] => Shifts(e, f)
  BY <1>1 DEF Shifts
<1>3. inbox'[e] = <<>> => Shifts(e, f)
  BY DEF Shifts
<1>4. ASSUME inbox[e] # <<>>, Pop(e) PROVE Shifts(e, f)
  <2>1. /\ Len(inbox'[e]) = Len(inbox[e]) - 1
        /\ \A i \in 1..Len(inbox'[e]) : inbox'[e][i] = inbox[e][i + 1]
    BY <1>4, PopFacts
  <2>2. \A i \in 1..Len(inbox'[e]) : i + 1 \in 1..Len(inbox[e])
    BY <1>1, <2>1
  <2> QED BY <2>1, <2>2 DEF Shifts
<1>5. ASSUME Len(inbox'[e]) = Len(inbox[e]) + 1,
             \A i \in 1..Len(inbox[e]) : inbox'[e][i] = inbox[e][i],
             ~Replies(inbox'[e][Len(inbox[e]) + 1], f)
      PROVE  Shifts(e, f)
  <2>1. ASSUME NEW i \in 1..Len(inbox'[e]), Replies(inbox'[e][i], f)
        PROVE  i + 0 \in 1..Len(inbox[e]) /\ inbox'[e][i] = inbox[e][i + 0]
    <3>1. i # Len(inbox[e]) + 1
      BY <1>5, <2>1
    <3>2. i \in 1..Len(inbox[e]) /\ i + 0 = i
      BY <1>1, <1>5, <2>1, <3>1
    <3> QED BY <1>5, <3>2
  <2> QED BY <2>1 DEF Shifts
<1> QED BY <1>1, <1>2, <1>3, <1>4, <1>5

\* A flow whose stage and request stay keeps its one answer.
LEMMA QuietFlight ==
    ASSUME TypeOK, TypeOK', NEW e \in Editors, NEW f \in Flows, Flight(e, f), Shifts(e, f),
           flow'[e][f] = flow[e][f],
           task[e][f] = Idle => task'[e][f] = Idle,
           task'[e][f].pc \notin {"none", "lost"} =>
               /\ task[e][f].pc \notin {"none", "lost"}
               /\ task'[e][f].op = task[e][f].op
    PROVE  Flight(e, f)'
<1>1. PICK h \in {0, 1} :
          \A i \in 1..Len(inbox'[e]) :
              Replies(inbox'[e][i], f) =>
                  i + h \in 1..Len(inbox[e]) /\ inbox'[e][i] = inbox[e][i + h]
  BY DEF Shifts
<1>2. Len(inbox[e]) \in Nat /\ Len(inbox'[e]) \in Nat
  BY DEF TypeOK
<1> DEFINE box == inbox'[e]
<1>3. flow'[e][f] \notin Waiting => task'[e][f] = Idle
  BY DEF Flight
<1>4. (\E i \in 1..Len(box) : Replies(box[i], f)) =>
          flow'[e][f] \in Waiting /\ task'[e][f] = Idle
  BY <1>1 DEF Flight, Answered
<1>5. \A i, j \in 1..Len(box) : Replies(box[i], f) /\ Replies(box[j], f) => i = j
  <2> SUFFICES ASSUME NEW i \in 1..Len(box), NEW j \in 1..Len(box),
                      Replies(box[i], f), Replies(box[j], f)
               PROVE  i = j
    OBVIOUS
  <2>1. /\ i + h \in 1..Len(inbox[e]) /\ box[i] = inbox[e][i + h]
        /\ j + h \in 1..Len(inbox[e]) /\ box[j] = inbox[e][j + h]
    BY <1>1
  <2>2. i + h = j + h
    BY <2>1 DEF Flight
  <2> QED BY <1>2, <2>2
<1>6. task'[e][f].pc \notin {"none", "lost"} =>
          (task'[e][f].op = "status" <=> flow'[e][f] \in Looks)
  BY DEF Flight
<1>7. \A i \in 1..Len(box) : Replies(box[i], f) /\ flow'[e][f] \notin Looks
          => box[i] \in Outcomes(f)
  BY <1>1 DEF Flight
<1> QED BY <1>3, <1>4, <1>5, <1>6, <1>7 DEF Flight, Answered, Replies, Outcomes, Done,
                                           Looks, Idle, Waiting

\* A flow of an editor goes on when it has had its answer, or needs none.
LEMMA AdvanceFlights ==
    ASSUME TypeOK, TypeOK', PromptingAlive, Handled, Flights,
           NEW e \in Editors, NEW f \in Flows, NEW ok \in BOOLEAN, Advances(e, f, ok),
           f = Signal /\ flow'[e][f] \in Asking => flow[e][f] # "none",
           ed[e] # "gone", UNCHANGED ed, task[e][f] = Idle,
           \A i \in 1..Len(inbox'[e]) : ~Replies(inbox'[e][i], f),
           \A d \in Editors, g \in Flows : Shifts(d, g)
    PROVE  Flights'
<1>1. /\ \A d \in Editors, g \in Flows :
             d # e \/ g # f => flow'[d][g] = flow[d][g]
      /\ flow[e][Signal] # "ensure" => flow'[e][Signal] # "ensure"
      /\ \A d \in Editors, z \in Slots :
             d # e \/ z \notin {f, "cancel"} => task'[d][z] = task[d][z]
      /\ \/ flow'[e][f] \notin Waiting /\ task'[e][f] = task[e][f]
         \/ /\ flow'[e][f] \in Waiting
            /\ task'[e][f].pc \in {"waiter", "run", "lost"}
            /\ task'[e][f].op = "status" <=> flow'[e][f] \in Looks
  BY AdvanceFacts
<1>2. Signal \in Flows /\ \A g \in Flows : g \in Slots /\ g # "cancel"
  BY PromptAssumption, IdleFacts
<1>3. ASSUME NEW d \in Editors, ed[d] # "gone", NEW g \in Flows, d # e \/ g # f
      PROVE  Flight(d, g)'
  <2>1. flow'[d][g] = flow[d][g] /\ task'[d][g] = task[d][g]
    BY <1>1, <1>2, <1>3
  <2>2. Flight(d, g) /\ Shifts(d, g)
    BY <1>3 DEF Flights
  <2> QED BY <2>1, <2>2, QuietFlight
<1>4. Flight(e, f)'
  <2>1. ~\E i \in 1..Len(inbox'[e]) : Replies(inbox'[e][i], f)
    OBVIOUS
  <2>2. flow'[e][f] \notin Waiting => task'[e][f] = Idle
    BY <1>1
  <2>3. task'[e][f].pc \notin {"none", "lost"} =>
            (task'[e][f].op = "status" <=> flow'[e][f] \in Looks)
    BY <1>1, IdleFacts
  <2> QED BY <2>1, <2>2, <2>3 DEF Flight, Answered, Replies, Outcomes, Done,
                                  Looks, Idle, Waiting
<1>5. \A d \in Editors : ed[d] # "gone" => flow'[d][Signal] # "ensure"
  BY <1>1, <1>2 DEF Flights
<1> QED BY <1>3, <1>4, <1>5 DEF Flights

\* A request of d at s goes on, or ends with nobody waiting for its answer.
Keeps(d, s) ==
    /\ task[d][s] = Idle => task'[d][s] = Idle
    /\ task'[d][s].pc \notin {"none", "lost"} =>
           /\ task[d][s].pc \notin {"none", "lost"}
           /\ task'[d][s].op = task[d][s].op

\* So do all flows of an editor.
LEMMA QuietFlights ==
    ASSUME TypeOK, TypeOK', Flights,
           \A d \in Editors : ed'[d] # "gone" =>
               /\ ed[d] # "gone" /\ flow'[d] = flow[d]
               /\ \A g \in Flows : Shifts(d, g) /\ Keeps(d, g)
    PROVE  Flights'
<1>1. ASSUME NEW d \in Editors, ed'[d] # "gone", NEW g \in Flows
      PROVE  Flight(d, g)'
  BY <1>1, QuietFlight DEF Flights, Keeps
<1>2. \A d \in Editors : ed'[d] # "gone" => flow'[d][Signal] # "ensure"
  BY DEF Flights
<1> QED BY <1>1, <1>2 DEF Flights

\* The answer arrives, or its editor is not there.
LEMMA ReplyFlight ==
    ASSUME TypeOK, TypeOK', Handled, NEW e \in Editors, NEW f \in Flows, Flight(e, f),
           Reply(e, f)
    PROVE  Flight(e, f)'
<1> DEFINE a == task[e][f].answer
           box == inbox'[e]
           n == Len(inbox[e])
<1>0. f \in Slots /\ Idle.pc = "none"
  BY IdleFacts
<1>1. /\ UNCHANGED editorVars /\ task[e][f].pc = "reply" /\ task'[e][f] = Idle
      /\ Replies(a, f)
      /\ \/ inbox'[e] = inbox[e]
         \/ /\ Len(box) = n + 1 /\ box[n + 1] = a
            /\ \A i \in 1..n : box[i] = inbox[e][i]
  BY <1>0, ReplyFacts
<1>2. /\ flow'[e][f] = flow[e][f] /\ flow[e][f] \in Waiting
      /\ \A i \in 1..n : ~Replies(inbox[e][i], f)
      /\ flow[e][f] \notin Looks => a \in Outcomes(f)
  <2>1. task[e][f] # Idle /\ task[e][f].pc \notin {"none", "lost"}
    BY <1>0, <1>1
  <2>2. task[e][f].op # "status" => a \in Outcomes(f)
    BY <1>0, <1>1 DEF Handled, Holds
  <2> QED BY <1>1, <2>1, <2>2 DEF Flight, Answered, editorVars
<1>3. n \in Nat
  BY DEF TypeOK
<1>4. \A i \in 1..Len(box) : Replies(box[i], f) => i = n + 1 /\ box[i] = a
  BY <1>1, <1>2, <1>3, SMTT(30)
<1> HIDE DEF a, n
<1>5. \A i, j \in 1..Len(box) : Replies(box[i], f) /\ Replies(box[j], f) => i = j
  BY <1>4
<1>6. \A i \in 1..Len(box) : Replies(box[i], f) /\ flow'[e][f] \notin Looks
          => box[i] \in Outcomes(f)
  BY <1>2, <1>4
<1> QED BY <1>0, <1>1, <1>2, <1>5, <1>6 DEF Flight, Answered, Replies, Outcomes, Done,
                                            Looks, Idle, Waiting

\* Every step keeps the one request or answer of each waiting flow.
LEMMA FlightsStep ==
    ASSUME IInv, [Next]_vars
    PROVE  Flights'
<1>0. TypeOK /\ TypeOK' /\ PromptingAlive /\ Handled /\ Flights
  BY BasicsStep DEF IInv
<1>1. /\ Signal \in Flows /\ inbox \in [Editors -> Seq(Messages)] /\ reg \subseteq Editors
      /\ \A g \in Flows : g \in Slots /\ g \notin {"hello", "lock", "cancel", "exit"}
      /\ Idle.pc = "none"
  BY <1>0, PromptAssumption, IdleFacts DEF TypeOK, AgentTypes
<1>2. ASSUME NEW e \in Editors, inbox[e] # <<>>, Pop(e), NEW d \in Editors, NEW g \in Flows
      PROVE  Shifts(d, g)
  BY <1>0, <1>2, PopFacts, ShiftFacts
<1>3. ASSUME NEW m \in Messages, m.kind # "answer", Broadcast(m),
             NEW d \in Editors, NEW g \in Flows
      PROVE  Shifts(d, g)
  <2>1. CASE d \in reg
    <3>1. /\ Len(inbox'[d]) = Len(inbox[d]) + 1
          /\ \A i \in 1..Len(inbox[d]) : inbox'[d][i] = inbox[d][i]
          /\ inbox'[d][Len(inbox[d]) + 1] = m
      BY <1>0, <1>3, <2>1, BroadcastFacts
    <3>2. ~Replies(inbox'[d][Len(inbox[d]) + 1], g)
      BY <1>3, <3>1 DEF Replies
    <3> QED BY <1>0, <3>1, <3>2, ShiftFacts
  <2>2. CASE d \notin reg
    BY <1>0, <1>3, <2>2, BroadcastFacts, ShiftFacts
  <2> QED BY <2>1, <2>2
<1>4. ASSUME NEW e \in Editors, NEW f \in Flows, Chooses(e, f)
      PROVE  Flights'
  <2>1. /\ ed[e] = "up" /\ UNCHANGED <<ed, inbox>>
        /\ Advances(e, f, FALSE) /\ flow[e][f] \notin Waiting
        /\ f = Signal /\ flow'[e][f] \in Asking => flow[e][f] # "none"
    BY <1>4 DEF Chooses
  <2>2. PICK ok \in BOOLEAN : Advances(e, f, ok)
    BY <2>1, Zenon
  <2>3. task[e][f] = Idle /\ \A i \in 1..Len(inbox[e]) : ~Replies(inbox[e][i], f)
    BY <1>0, <2>1 DEF Flights, Flight, Answered
  <2>4. \A d \in Editors, g \in Flows : Shifts(d, g)
    BY <1>0, <2>1, ShiftFacts
  <2> QED BY <1>0, <2>1, <2>2, <2>3, <2>4, AdvanceFlights
<1>5. ASSUME NEW e \in Editors, NEW f \in Flows, NEW ok \in BOOLEAN, Handles(e, f, ok)
      PROVE  Flights'
  <2>1. /\ ed[e] \in {"up", "leaving"} /\ UNCHANGED ed
        /\ inbox[e] # <<>> /\ Pop(e) /\ Advances(e, f, ok)
        /\ Replies(Head(inbox[e]), f) /\ flow[e][f] \in Waiting
    BY <1>5 DEF Handles
  <2>2. /\ Len(inbox[e]) \in Nat /\ Len(inbox[e]) > 0
        /\ Len(inbox'[e]) = Len(inbox[e]) - 1 /\ Head(inbox[e]) = inbox[e][1]
        /\ \A i \in 1..Len(inbox'[e]) : inbox'[e][i] = inbox[e][i + 1]
    BY <1>0, <2>1, PopFacts
  <2>3. Flight(e, f)
    BY <1>0, <2>1 DEF Flights
  <2>4. task[e][f] = Idle
    BY <2>1, <2>2, <2>3 DEF Flight, Answered
  <2>5. \A i \in 1..Len(inbox'[e]) : ~Replies(inbox'[e][i], f)
    <3> SUFFICES ASSUME NEW i \in 1..Len(inbox'[e]), Replies(inbox'[e][i], f)
                 PROVE  FALSE
      OBVIOUS
    <3>1. i + 1 \in 1..Len(inbox[e]) /\ 1 \in 1..Len(inbox[e]) /\ i + 1 # 1
      BY <2>2
    <3>2. Replies(inbox[e][i + 1], f) /\ Replies(inbox[e][1], f)
      BY <2>1, <2>2
    <3> QED BY <2>3, <3>1, <3>2 DEF Flight
  <2>6. \A d \in Editors, g \in Flows : Shifts(d, g)
    BY <1>2, <2>1
  <2>7. flow[e][f] # "none"
    BY <2>1 DEF Waiting
  <2> QED BY <1>0, <2>1, <2>4, <2>5, <2>6, <2>7, AdvanceFlights
<1>6. ASSUME NEW e \in Editors, OnNeeded(e)
      PROVE  Flights'
  <2>1. /\ ed[e] \in {"up", "leaving"} /\ inbox[e] # <<>> /\ Pop(e) /\ UNCHANGED ed
        /\ \/ UNCHANGED <<prompting, flow, task, conn>>
           \/ /\ flow[e][Signal] = "none" /\ flow'[e][Signal] = "status"
              /\ Advances(e, Signal, FALSE)
    BY <1>0, <1>6, NeededFacts
  <2>2. \A d \in Editors, g \in Flows : Shifts(d, g)
    BY <1>2, <2>1
  <2>3. CASE UNCHANGED <<prompting, flow, task, conn>>
    BY <1>0, <2>1, <2>2, <2>3, QuietFlights DEF Keeps
  <2>4. CASE /\ flow[e][Signal] = "none" /\ flow'[e][Signal] = "status"
             /\ Advances(e, Signal, FALSE)
    <3>1. PICK ok \in BOOLEAN : Advances(e, Signal, ok)
      BY <2>4, Zenon
    <3>2. flow'[e][Signal] \notin Asking /\ flow[e][Signal] \notin Waiting
      BY <2>4 DEF Asking, Waiting
    <3>3. /\ task[e][Signal] = Idle
          /\ \A i \in 1..Len(inbox[e]) : ~Replies(inbox[e][i], Signal)
      BY <1>0, <1>1, <2>1, <3>2 DEF Flights, Flight, Answered
    <3>4. \A i \in 1..Len(inbox'[e]) : ~Replies(inbox'[e][i], Signal)
      <4>1. Shifts(e, Signal)
        BY <1>1, <2>2
      <4>2. PICK h \in {0, 1} :
                \A i \in 1..Len(inbox'[e]) :
                    Replies(inbox'[e][i], Signal) =>
                        /\ i + h \in 1..Len(inbox[e])
                        /\ inbox'[e][i] = inbox[e][i + h]
        BY <4>1 DEF Shifts
      <4> QED BY <3>3, <4>2
    <3> QED BY <1>0, <1>1, <2>1, <2>2, <3>1, <3>2, <3>3, <3>4, AdvanceFlights
  <2> QED BY <2>1, <2>3, <2>4
<1>7. ASSUME NEW e \in Editors, Quits(e)
      PROVE  Flights'
  <2>1. /\ ed'[e] = "gone"
        /\ \A d \in Editors \ {e} :
               /\ ed'[d] = ed[d] /\ conn'[d] = conn[d] /\ inbox'[d] = inbox[d]
               /\ flow'[d] = flow[d] /\ prompting'[d] = prompting[d]
        /\ \A d \in Editors \ {e}, s \in Slots : task'[d][s] = task[d][s]
    BY <1>0, <1>7, QuitFacts
  <2>2. \A d \in Editors \ {e}, g \in Flows : Shifts(d, g) /\ Keeps(d, g)
    BY <1>0, <1>1, <2>1, ShiftFacts DEF Keeps
  <2> QED BY <1>0, <2>1, <2>2, QuietFlights
<1>8. ASSUME NEW e \in Editors, Loses(e)
      PROVE  Flights'
  <2>1. /\ ed[e] \in {"up", "leaving"} /\ inbox[e] = <<>> /\ UNCHANGED <<ed, inbox>>
        /\ \A d \in Editors \ {e} : flow'[d] = flow[d]
        /\ flow[e][Signal] # "ensure" => flow'[e][Signal] # "ensure"
        /\ \A d \in Editors \ {e}, s \in Slots : task'[d][s] = task[d][s]
        /\ \A s \in Slots : task'[e][s] # Idle => s = "cancel"
    BY <1>0, <1>8, LoseFacts
  <2>2. ASSUME NEW g \in Flows PROVE Flight(e, g)'
    <3>1. task'[e][g] = Idle /\ Len(inbox'[e]) = 0
      BY <1>1, <2>1
    <3> QED BY <1>1, <3>1 DEF Flight, Answered, Idle
  <2>3. ASSUME NEW d \in Editors \ {e}, ed[d] # "gone", NEW g \in Flows
        PROVE  Flight(d, g)'
    <3>1. /\ Flight(d, g) /\ Shifts(d, g) /\ flow'[d][g] = flow[d][g]
          /\ task'[d][g] = task[d][g]
      BY <1>0, <1>1, <2>1, <2>3, ShiftFacts DEF Flights
    <3> QED BY <1>0, <3>1, QuietFlight
  <2>4. \A d \in Editors : ed[d] # "gone" => flow'[d][Signal] # "ensure"
    BY <1>0, <2>1 DEF Flights
  <2> QED BY <2>1, <2>2, <2>3, <2>4 DEF Flights
<1>9. ASSUME UNCHANGED <<flow, inbox>>,
             \A d \in Editors : ed'[d] # "gone" => ed[d] # "gone",
             \A d \in Editors, g \in Flows : Keeps(d, g)
      PROVE  Flights'
  BY <1>0, <1>9, ShiftFacts, QuietFlights
<1>10. ASSUME UNCHANGED task, NEW d \in Editors, NEW g \in Slots PROVE Keeps(d, g)
  BY <1>10 DEF Keeps
<1>11. ASSUME NEW e \in Editors, Setup(e) PROVE Flights'
  <2>1. /\ ed[e] = "off" /\ ed' = [ed EXCEPT ![e] = "up"] /\ UNCHANGED <<flow, inbox, task>>
    BY <1>11 DEF Setup
  <2>2. \A d \in Editors : ed'[d] # "gone" => ed[d] # "gone"
    BY <1>0, <2>1 DEF TypeOK, EditorTypes
  <2> QED BY <1>1, <1>9, <1>10, <2>1, <2>2
<1>12. ASSUME NEW e \in Editors, LockCall(e) \/ ExitLocks(e) PROVE Flights'
  <2>1. /\ ed[e] = "up" /\ UNCHANGED <<flow, inbox>>
        /\ UNCHANGED ed \/ ed' = [ed EXCEPT ![e] = "leaving"]
        /\ \E s \in {"lock", "exit"} :
               \A d \in Editors, z \in Slots :
                   d # e \/ z # s => task'[d][z] = task[d][z]
    BY <1>0, <1>12, CallFacts
  <2>2. \A d \in Editors, g \in Flows : Keeps(d, g)
    BY <1>1, <2>1 DEF Keeps
  <2>3. \A d \in Editors : ed'[d] # "gone" => ed[d] # "gone"
    BY <1>0, <2>1 DEF TypeOK, EditorTypes
  <2> QED BY <1>9, <2>1, <2>2, <2>3
<1>13. ASSUME NEW e \in Editors, OnState(e) PROVE Flights'
  <2>1. /\ inbox[e] # <<>> /\ Pop(e) /\ UNCHANGED <<ed, flow, task>>
    BY <1>13 DEF OnState, Takes
  <2> QED BY <1>0, <1>1, <1>2, <1>10, <2>1, QuietFlights
<1>14. ASSUME NEW e \in Editors, OnHello(e) PROVE Flights'
  <2>1. /\ inbox[e] # <<>> /\ Pop(e) /\ UNCHANGED <<ed, flow>>
        /\ \A d \in Editors \ {e}, s \in Slots : task'[d][s] = task[d][s]
        /\ \A s \in Slots :
               \/ task'[e][s] = task[e][s]
               \/ /\ task[e][s].pc = "waiter" /\ task'[e][s].op = task[e][s].op
                  /\ \/ task'[e][s].pc = "run"
                     \/ task'[e][s].pc = "lost"
    BY <1>0, <1>14, HelloFacts
  <2>2. \A d \in Editors, g \in Flows : Keeps(d, g)
    <3> SUFFICES ASSUME NEW d \in Editors, NEW g \in Flows PROVE Keeps(d, g)
      OBVIOUS
    <3>1. CASE d = e
      BY <1>1, <2>1, <3>1 DEF Keeps
    <3>2. CASE d # e
      BY <1>1, <2>1, <3>2 DEF Keeps
    <3> QED BY <3>1, <3>2
  <2> QED BY <1>0, <1>2, <2>1, <2>2, QuietFlights
<1>15. ASSUME NEW e \in Editors, Connect(e) PROVE Flights'
  <2>1. /\ UNCHANGED <<ed, flow, inbox>>
        /\ \A d \in Editors, z \in Slots :
               d # e \/ z # "hello" => task'[d][z] = task[d][z]
    BY <1>0, <1>15, ConnectFacts
  <2>2. \A d \in Editors, g \in Flows : Keeps(d, g)
    BY <1>1, <2>1 DEF Keeps
  <2> QED BY <1>9, <2>1, <2>2
<1>16. ASSUME NEW e \in Editors, NEW s \in Slots, Serve(e, s) PROVE Flights'
  <2>1. CASE RunStatus(e, s) \/ RunInstall(e, s) \/ RunFails(e, s) \/ RunLock(e, s)
    <3>1. /\ UNCHANGED <<editorVars, inbox>>
          /\ task[e][s].pc = "run" /\ task'[e][s].op = task[e][s].op
          /\ \A d \in Editors, z \in Slots :
                 d # e \/ z # s => task'[d][z] = task[d][z]
      BY <1>0, <2>1, RunFacts
    <3>2. \A d \in Editors, g \in Flows : Keeps(d, g)
      BY <1>1, <3>1 DEF Keeps
    <3>3. UNCHANGED <<ed, flow>>
      BY <3>1 DEF editorVars
    <3> QED BY <1>9, <3>1, <3>2, <3>3
  <2>2. CASE RunCancel(e, s)
    <3>1. /\ UNCHANGED <<editorVars, inbox>> /\ s \notin Flows
          /\ \A d \in Editors, z \in Slots :
                 d # e \/ z # s => task'[d][z] = task[d][z]
      BY <1>0, <2>2, CancelFacts
    <3>2. \A d \in Editors, g \in Flows : Keeps(d, g)
      BY <1>1, <3>1 DEF Keeps
    <3>3. UNCHANGED <<ed, flow>>
      BY <3>1 DEF editorVars
    <3> QED BY <1>9, <3>1, <3>2, <3>3
  <2>3. CASE Announce(e, s)
    <3>1. /\ UNCHANGED editorVars /\ \E l \in BOOLEAN : Broadcast(State(l))
          /\ task[e][s].pc = "announce"
          /\ task'[e][s].op = task[e][s].op
          /\ \A d \in Editors, z \in Slots :
                 d # e \/ z # s => task'[d][z] = task[d][z]
      BY <1>0, <2>3, AnnounceFacts
    <3>2. \A d \in Editors, g \in Flows : Keeps(d, g)
      BY <1>1, <3>1 DEF Keeps
    <3>3. UNCHANGED <<ed, flow>>
      BY <3>1 DEF editorVars
    <3>4. \A d \in Editors, g \in Flows : Shifts(d, g)
      BY <1>3, <3>1, MessageFacts
    <3> QED BY <1>0, <3>2, <3>3, <3>4, QuietFlights
  <2>4. CASE Reply(e, s)
    <3>1. /\ UNCHANGED editorVars
          /\ task[e][s].pc = "reply" /\ Replies(task[e][s].answer, s)
          /\ \A d \in Editors : d # e => inbox'[d] = inbox[d]
          /\ \/ inbox'[e] = inbox[e]
             \/ /\ Len(inbox'[e]) = Len(inbox[e]) + 1
                /\ \A i \in 1..Len(inbox[e]) : inbox'[e][i] = inbox[e][i]
                /\ inbox'[e][Len(inbox[e]) + 1] = task[e][s].answer
          /\ \A d \in Editors, z \in Slots :
                 d # e \/ z # s => task'[d][z] = task[d][z]
      BY <1>0, <2>4, ReplyFacts
    <3>2. UNCHANGED <<ed, flow>>
      BY <3>1 DEF editorVars
    <3>3. ASSUME NEW d \in Editors, ed[d] # "gone", NEW g \in Flows, d # e \/ g # s
          PROVE  Flight(d, g)'
      <4>1. Shifts(d, g)
        <5>1. CASE inbox'[d] = inbox[d]
          BY <1>0, <5>1, ShiftFacts
        <5>2. CASE inbox'[d] # inbox[d]
          <6>1. d = e /\ g # s
            BY <3>1, <3>3, <5>2
          <6>2. ~Replies(task[e][s].answer, g)
            BY <3>1, <6>1 DEF Replies
          <6> QED BY <1>0, <3>1, <5>2, <6>1, <6>2, ShiftFacts
        <5> QED BY <5>1, <5>2
      <4>2. Flight(d, g) /\ flow'[d][g] = flow[d][g] /\ task'[d][g] = task[d][g]
        BY <1>0, <1>1, <3>1, <3>2, <3>3 DEF Flights
      <4> QED BY <1>0, <4>1, <4>2, QuietFlight
    <3>4. ASSUME ed[e] # "gone", s \in Flows PROVE Flight(e, s)'
      BY <1>0, <2>4, <3>4, ReplyFlight DEF Flights
    <3>5. \A d \in Editors : ed[d] # "gone" => flow'[d][Signal] # "ensure"
      BY <1>0, <3>2 DEF Flights
    <3> QED BY <3>2, <3>3, <3>4, <3>5 DEF Flights
  <2> QED BY <1>16, <2>1, <2>2, <2>3, <2>4 DEF Serve
<1>17. CASE AutoAnnounce \/ ReadSignals
  <2>1. UNCHANGED <<editorVars, task>>
    BY <1>17 DEF AutoAnnounce, ReadSignals
  <2>2. (\E l \in BOOLEAN : Broadcast(State(l))) \/ Broadcast(Needed)
    BY <1>17, Zenon DEF AutoAnnounce, ReadSignals
  <2>3. \A d \in Editors, g \in Flows : Shifts(d, g)
    BY <1>3, <2>2, MessageFacts
  <2>4. UNCHANGED <<ed, flow>>
    BY <2>1 DEF editorVars
  <2> QED BY <1>0, <1>1, <1>10, <2>1, <2>3, <2>4, QuietFlights
<1>18. CASE AutoLock \/ Read \/ ReadParks \/ ReadGivesUp \/ UNCHANGED vars
  <2>1. UNCHANGED <<ed, flow, inbox, task>>
    BY <1>18 DEF AutoLock, Read, ReadParks, ReadGivesUp, vars, editorVars
  <2> QED BY <1>1, <1>9, <1>10, <2>1
<1>19. CASE AgentDies
  <2>1. /\ UNCHANGED <<editorVars, inbox>>
        /\ \A d \in Editors, s \in Slots :
               \/ task'[d][s] = task[d][s]
               \/ /\ task[d][s].pc \in {"run", "announce", "reply"}
                  /\ task'[d][s] = Idle \/ task'[d][s].pc = "lost"
    BY <1>0, <1>19, DeathFacts
  <2>2. \A d \in Editors, g \in Flows : Keeps(d, g)
    BY <1>1, <2>1 DEF Keeps
  <2>3. UNCHANGED <<ed, flow>>
    BY <2>1 DEF editorVars
  <2> QED BY <1>9, <2>1, <2>2, <2>3
<1> QED BY <1>4, <1>5, <1>6, <1>7, <1>8, <1>11, <1>12, <1>13, <1>14, <1>15, <1>16,
           <1>17, <1>18, <1>19, StepKinds

-----------------------------------------------------------------------------
(* Every step keeps what is known of the requests without a flow.          *)

\* A request that no agent has started yet, or that is lost.
Outside(t) == t.pc \in {"none", "waiter", "lost"}

\* What a step may do to the tasks of an editor in the client table or not.
Turns(d) ==
    \A s \in Slots :
        \/ task'[d][s] = task[d][s]
        \/ Outside(task'[d][s]) /\ task'[d][s].op \in {task[d][s].op, "none"}
        \/ /\ s = "cancel" => task'[d][s].op = "cancel"
           /\ s = "hello" => task'[d][s].op \in {task[d][s].op, "status"}
           /\ s = "cancel" => task'[d][s].pc \notin {"announce", "reply"}
           /\ Outside(task'[d][s]) \/ ed'[d] = "gone" \/ d \in reg'

\* A caller whose request goes on as it should stays as it should.
LEMMA CallerTurns ==
    ASSUME NEW d \in Editors, Caller(d), Turns(d),
           ed'[d] \in {"off", "up"} =>
               ed[d] \in {"off", "up"} /\ task'[d]["exit"] \in {task[d]["exit"], Idle},
           ed'[d] # "gone" /\ d \notin reg' =>
               \/ ed[d] # "gone" /\ d \notin reg
               \/ \A s \in Slots : Outside(task'[d][s])
    PROVE  Caller(d)'
<1>0. {"hello", "lock", "cancel", "exit"} \subseteq Slots
  BY IdleFacts
<1>1. task'[d]["hello"].op \in {"none", "status"}
  BY <1>0 DEF Caller, Turns
<1>2. /\ task'[d]["cancel"].op \in {"none", "cancel"}
      /\ task'[d]["cancel"].pc \notin {"announce", "reply"}
  BY <1>0 DEF Caller, Turns, Outside
<1>3. ed'[d] \in {"off", "up"} => task'[d]["exit"] = Idle
  BY DEF Caller
<1>4. ed'[d] # "gone" /\ d \notin reg' =>
          \A s \in Slots : task'[d][s].pc \notin {"run", "announce", "reply"}
  BY DEF Caller, Turns, Outside
<1> QED BY <1>1, <1>2, <1>3, <1>4 DEF Caller, Idle

\* A flow that goes on does so for the callers.
LEMMA AdvanceTurns ==
    ASSUME TypeOK, PromptingAlive, Handled, Callers, NEW e \in Editors, NEW f \in Flows,
           NEW ok \in BOOLEAN, Advances(e, f, ok),
           f = Signal /\ flow'[e][f] \in Asking => flow[e][f] # "none",
           UNCHANGED <<ed, agentVars>>
    PROVE  Callers'
<1>1. /\ \A d \in Editors, z \in Slots :
             d # e \/ z \notin {f, "cancel"} => task'[d][z] = task[d][z]
      /\ \/ task'[e]["cancel"] = task[e]["cancel"]
         \/ task'[e]["cancel"].op = "cancel"
      /\ \A z \in Slots :
             \/ task'[e][z] = task[e][z]
             \/ task'[e][z].pc \in {"waiter", "lost"}
             \/ task'[e][z].pc = "run" /\ e \in reg
  BY AdvanceFacts
<1>2. f \notin {"hello", "cancel", "exit"} /\ "exit" \in Slots
  BY IdleFacts
<1>3. UNCHANGED <<ed, reg>>
  BY DEF agentVars
<1>4. ASSUME NEW d \in Editors PROVE Turns(d) /\ task'[d]["exit"] = task[d]["exit"]
  <2>1. CASE d = e
    BY <1>1, <1>2, <1>3, <2>1 DEF Turns, Outside
  <2>2. CASE d # e
    BY <1>1, <1>2, <2>2 DEF Turns
  <2> QED BY <2>1, <2>2
<1> QED BY <1>3, <1>4, CallerTurns DEF Callers

\* Every step keeps the requests that have no flow.
LEMMA CallersStep ==
    ASSUME IInv, [Next]_vars
    PROVE  Callers'
<1>0. TypeOK /\ TypeOK' /\ PromptingAlive /\ Handled /\ Callers
  BY BasicsStep DEF IInv
<1>1. /\ Signal \in Flows /\ Idle.pc = "none" /\ Idle.op = "none" /\ Outside(Idle)
      /\ {"hello", "lock", "cancel", "exit"} \subseteq Slots
      /\ ed \in [Editors -> {"off", "up", "leaving", "gone"}]
  BY <1>0, PromptAssumption, IdleFacts DEF TypeOK, EditorTypes, Outside
<1>2. ASSUME UNCHANGED <<ed, reg>>,
             \A d \in Editors : Turns(d) /\ task'[d]["exit"] \in {task[d]["exit"], Idle}
      PROVE  Callers'
  BY <1>0, <1>2, CallerTurns DEF Callers
<1>3. ASSUME NEW e \in Editors, NEW f \in Flows, Chooses(e, f) PROVE Callers'
  <2>1. /\ UNCHANGED <<ed, agentVars>>
        /\ f = Signal /\ flow'[e][f] \in Asking => flow[e][f] # "none"
    BY <1>3 DEF Chooses
  <2>2. PICK ok \in BOOLEAN : Advances(e, f, ok)
    BY <1>3, Zenon DEF Chooses
  <2> QED BY <1>0, <2>1, <2>2, AdvanceTurns
<1>4. ASSUME NEW e \in Editors, NEW f \in Flows, NEW ok \in BOOLEAN, Handles(e, f, ok)
      PROVE  Callers'
  <2>1. /\ UNCHANGED <<ed, agentVars>> /\ Advances(e, f, ok) /\ flow[e][f] # "none"
    BY <1>4 DEF Handles, Waiting
  <2> QED BY <1>0, <2>1, AdvanceTurns
<1>5. ASSUME NEW e \in Editors, OnNeeded(e) PROVE Callers'
  <2>1. /\ UNCHANGED <<ed, agentVars>>
        /\ \/ UNCHANGED <<prompting, flow, task, conn>>
           \/ flow'[e][Signal] = "status" /\ Advances(e, Signal, FALSE)
    BY <1>0, <1>5, NeededFacts
  <2>2. CASE UNCHANGED <<prompting, flow, task, conn>>
    BY <1>2, <2>1, <2>2 DEF Turns, agentVars
  <2>3. CASE flow'[e][Signal] = "status" /\ Advances(e, Signal, FALSE)
    <3>1. PICK ok \in BOOLEAN : Advances(e, Signal, ok)
      BY <2>3, Zenon
    <3>2. flow'[e][Signal] \notin Asking
      BY <2>3 DEF Asking
    <3> QED BY <1>0, <1>1, <2>1, <3>1, <3>2, AdvanceTurns
  <2> QED BY <2>1, <2>2, <2>3
<1>6. ASSUME NEW e \in Editors, Quits(e) PROVE Callers'
  <2>1. /\ ed'[e] = "gone" /\ reg' = reg \ {e}
        /\ \A d \in Editors \ {e} :
               /\ ed'[d] = ed[d] /\ conn'[d] = conn[d] /\ inbox'[d] = inbox[d]
               /\ flow'[d] = flow[d] /\ prompting'[d] = prompting[d]
        /\ \A d \in Editors, s \in Slots :
               task'[d][s] = task[d][s] \/ task'[d][s] = Idle
    BY <1>0, <1>6, QuitFacts
  <2>2. \A d \in Editors : Turns(d) /\ task'[d]["exit"] \in {task[d]["exit"], Idle}
    BY <1>1, <2>1 DEF Turns
  <2>3. \A d \in Editors : d # e => ed'[d] = ed[d] /\ (d \in reg' <=> d \in reg)
    BY <2>1
  <2> QED BY <1>0, <2>1, <2>2, <2>3, CallerTurns DEF Callers
<1>7. ASSUME NEW e \in Editors, Loses(e) PROVE Callers'
  <2>1. /\ UNCHANGED <<ed, agentVars>>
        /\ \A d \in Editors \ {e}, s \in Slots : task'[d][s] = task[d][s]
        /\ \A s \in Slots : task'[e][s] # Idle => s = "cancel"
        /\ \A s \in Slots : task'[e][s].pc \in {"none", "waiter"}
        /\ task'[e]["cancel"].op \in {"none", "cancel"}
    BY <1>0, <1>7, LoseFacts
  <2>2. \A d \in Editors : Turns(d) /\ task'[d]["exit"] \in {task[d]["exit"], Idle}
    <3>1. Turns(e) /\ task'[e]["exit"] = Idle
      <4> SUFFICES ASSUME NEW s \in Slots
                   PROVE  \/ Outside(task'[e][s]) /\ task'[e][s].op \in {task[e][s].op, "none"}
                          \/ /\ s = "cancel" /\ task'[e][s].op = "cancel"
                             /\ Outside(task'[e][s])
        BY <1>1, <2>1 DEF Turns, Outside
      <4>1. Outside(task'[e][s])
        BY <2>1 DEF Outside
      <4> QED BY <1>1, <2>1, <4>1
    <3>2. ASSUME NEW d \in Editors \ {e}
          PROVE  Turns(d) /\ task'[d]["exit"] = task[d]["exit"]
      BY <1>1, <2>1 DEF Turns
    <3> QED BY <3>1, <3>2
  <2> QED BY <1>2, <2>1, <2>2 DEF agentVars
<1>8. ASSUME NEW e \in Editors, Setup(e) PROVE Callers'
  <2>1. /\ ed[e] = "off" /\ ed' = [ed EXCEPT ![e] = "up"] /\ UNCHANGED <<task, agentVars>>
    BY <1>8 DEF Setup
  <2>2. \A d \in Editors : Turns(d) /\ task'[d]["exit"] = task[d]["exit"]
    BY <2>1 DEF Turns
  <2>3. /\ UNCHANGED reg
        /\ \A d \in Editors : \/ ed'[d] = ed[d]
                              \/ ed[d] = "off" /\ ed'[d] = "up"
    BY <1>1, <2>1 DEF agentVars
  <2> QED BY <1>0, <2>2, <2>3, CallerTurns DEF Callers
<1>9. ASSUME NEW e \in Editors, LockCall(e) \/ ExitLocks(e) PROVE Callers'
  <2>1. /\ ed[e] = "up" /\ UNCHANGED agentVars
        /\ UNCHANGED ed \/ ed' = [ed EXCEPT ![e] = "leaving"]
        /\ \E s \in {"lock", "exit"} :
               /\ s = "lock" => task[e][s] = Idle
               /\ s = "exit" => ed'[e] = "leaving"
               /\ task'[e][s].pc \in {"waiter", "lost", "run"}
               /\ task'[e][s].pc = "run" => e \in reg
               /\ \A d \in Editors, z \in Slots :
                      d # e \/ z # s => task'[d][z] = task[d][z]
    BY <1>0, <1>9, CallFacts
  <2>2. PICK s \in {"lock", "exit"} :
            /\ s = "exit" => ed'[e] = "leaving"
            /\ task'[e][s].pc \in {"waiter", "lost", "run"}
            /\ task'[e][s].pc = "run" => e \in reg
            /\ \A d \in Editors, z \in Slots :
                   d # e \/ z # s => task'[d][z] = task[d][z]
    BY <2>1
  <2>3. UNCHANGED reg /\ \A d \in Editors : ed'[d] = ed[d] \/ (d = e /\ ed'[d] = "leaving")
    BY <1>1, <2>1 DEF agentVars
  <2>4. \A d \in Editors : Turns(d)
    BY <2>2, <2>3 DEF Turns, Outside
  <2>5. \A d \in Editors : ed'[d] \in {"off", "up"} => task'[d]["exit"] = task[d]["exit"]
    BY <1>1, <2>2
  <2>6. \A d \in Editors : ed'[d] # "gone" => ed[d] # "gone"
    BY <2>1, <2>3
  <2> QED BY <1>0, <2>3, <2>4, <2>5, <2>6, CallerTurns DEF Callers
<1>10. ASSUME NEW e \in Editors, OnHello(e) PROVE Callers'
  <2>1. /\ UNCHANGED <<ed, agentVars>>
        /\ \A d \in Editors \ {e}, s \in Slots : task'[d][s] = task[d][s]
        /\ \A s \in Slots :
               \/ task'[e][s] = task[e][s]
               \/ /\ task[e][s].pc = "waiter" /\ task'[e][s].op = task[e][s].op
                  /\ \/ task'[e][s].pc = "run" /\ e \in reg
                     \/ task'[e][s].pc = "lost"
    BY <1>0, <1>10, HelloFacts
  <2>2. UNCHANGED <<ed, reg>>
    BY <2>1 DEF agentVars
  <2>3. ASSUME NEW d \in Editors \ {e} PROVE Caller(d)'
    <3>1. Turns(d) /\ task'[d]["exit"] = task[d]["exit"]
      BY <1>1, <2>1 DEF Turns
    <3> QED BY <1>0, <2>2, <3>1, CallerTurns DEF Callers
  <2>4. Caller(e)'
    <3>1. /\ task'[e]["hello"].op \in {"none", "status"}
          /\ task'[e]["cancel"].op \in {"none", "cancel"}
          /\ task'[e]["cancel"].pc \notin {"announce", "reply"}
      BY <1>0, <1>1, <2>1 DEF Callers, Caller
    <3>2. ed'[e] \in {"off", "up"} => task'[e]["exit"] = Idle
      BY <1>0, <1>1, <2>1, <2>2 DEF Callers, Caller
    <3>3. ed'[e] # "gone" /\ e \notin reg' =>
              \A s \in Slots : task'[e][s].pc \notin {"run", "announce", "reply"}
      BY <1>0, <2>1, <2>2 DEF Callers, Caller
    <3> QED BY <3>1, <3>2, <3>3 DEF Caller, Idle
  <2> QED BY <2>3, <2>4 DEF Callers
<1>11. ASSUME NEW e \in Editors, Connect(e) PROVE Callers'
  <2>1. /\ reg' = reg \cup {e} /\ UNCHANGED ed
        /\ task'[e]["hello"].op = "status"
        /\ \A d \in Editors, z \in Slots :
               d # e \/ z # "hello" => task'[d][z] = task[d][z]
    BY <1>0, <1>11, ConnectFacts
  <2>2. \A d \in Editors : Turns(d) /\ task'[d]["exit"] = task[d]["exit"]
    BY <1>1, <2>1 DEF Turns
  <2> QED BY <1>0, <2>1, <2>2, CallerTurns DEF Callers
<1>12. ASSUME NEW e \in Editors, NEW s \in Slots, UNCHANGED <<ed, reg>>,
              \A d \in Editors, z \in Slots : d # e \/ z # s => task'[d][z] = task[d][z],
              task[e][s].pc \in {"run", "announce", "reply"},
              \/ task'[e][s] = Idle
              \/ s # "cancel" /\ task'[e][s].op = task[e][s].op
       PROVE  Callers'
  <2>1. Caller(e) /\ task[e][s] # Idle
    BY <1>0, <1>1, <1>12 DEF Callers
  <2>2. ed[e] = "gone" \/ e \in reg
    BY <1>12, <2>1 DEF Caller
  <2>3. Turns(e)
    BY <1>1, <1>12, <2>2 DEF Turns
  <2>4. ed'[e] \in {"off", "up"} => task'[e]["exit"] = task[e]["exit"]
    BY <1>1, <1>12, <2>1 DEF Caller
  <2>5. \A d \in Editors \ {e} : Turns(d) /\ task'[d]["exit"] = task[d]["exit"]
    BY <1>1, <1>12 DEF Turns
  <2> QED BY <1>0, <1>12, <2>3, <2>4, <2>5, CallerTurns DEF Callers
<1>13. ASSUME NEW e \in Editors, NEW s \in Slots, Serve(e, s) PROVE Callers'
  <2>1. CASE RunStatus(e, s) \/ RunInstall(e, s) \/ RunFails(e, s) \/ RunLock(e, s)
    <3>1. /\ UNCHANGED editorVars
          /\ task[e][s].pc = "run" /\ task'[e][s].op = task[e][s].op
          /\ Looked(e, s) \/ Changed(e, s) \/ Left(e, s)
          /\ \A d \in Editors, z \in Slots :
                 d # e \/ z # s => task'[d][z] = task[d][z]
      BY <1>0, <2>1, RunFacts
    <3>2. UNCHANGED <<ed, reg>> /\ task[e][s].op \notin {"none", "cancel"}
      BY <3>1 DEF Looked, Changed, Left, agentVars, editorVars
    <3>3. s # "cancel"
      BY <1>0, <3>2 DEF Callers, Caller
    <3> QED BY <1>12, <3>1, <3>2, <3>3
  <2>2. CASE RunCancel(e, s)
    <3>1. /\ UNCHANGED <<editorVars, reg>> /\ task[e][s].pc = "run" /\ task'[e][s] = Idle
          /\ \A d \in Editors, z \in Slots :
                 d # e \/ z # s => task'[d][z] = task[d][z]
      BY <1>0, <2>2, CancelFacts
    <3> QED BY <1>12, <3>1 DEF editorVars
  <2>3. CASE Announce(e, s)
    <3>1. /\ UNCHANGED <<editorVars, agentVars>>
          /\ task[e][s].pc = "announce" /\ task'[e][s].op = task[e][s].op
          /\ \A d \in Editors, z \in Slots :
                 d # e \/ z # s => task'[d][z] = task[d][z]
      BY <1>0, <2>3, AnnounceFacts
    <3>2. s # "cancel" /\ UNCHANGED <<ed, reg>>
      BY <1>0, <3>1 DEF Callers, Caller, editorVars, agentVars
    <3> QED BY <1>12, <3>1, <3>2
  <2>4. CASE Reply(e, s)
    <3>1. /\ UNCHANGED <<editorVars, agentVars>>
          /\ task[e][s].pc = "reply" /\ task'[e][s] = Idle
          /\ \A d \in Editors, z \in Slots :
                 d # e \/ z # s => task'[d][z] = task[d][z]
      BY <1>0, <2>4, ReplyFacts
    <3> QED BY <1>12, <3>1 DEF editorVars, agentVars
  <2> QED BY <1>13, <2>1, <2>2, <2>3, <2>4 DEF Serve
<1>14. CASE AgentDies
  <2>1. /\ UNCHANGED editorVars /\ reg' = {}
        /\ \A d \in Editors, s \in Slots :
               \/ /\ task'[d][s] = task[d][s]
                  /\ task'[d][s].pc \notin {"run", "announce", "reply"}
               \/ /\ task[d][s].pc \in {"run", "announce", "reply"}
                  /\ task'[d][s] = Idle \/ task'[d][s].pc = "lost"
                  /\ task'[d][s].op = "none"
    BY <1>0, <1>14, DeathFacts
  <2>2. UNCHANGED ed
    BY <2>1 DEF editorVars
  <2>3. ASSUME NEW d \in Editors PROVE Caller(d)'
    <3>1. /\ task'[d]["hello"].op \in {"none", "status"}
          /\ task'[d]["cancel"].op \in {"none", "cancel"}
          /\ task'[d]["cancel"].pc \notin {"announce", "reply"}
      BY <1>0, <1>1, <2>1 DEF Callers, Caller
    <3>2. ed'[d] \in {"off", "up"} => task'[d]["exit"] = Idle
      BY <1>0, <1>1, <2>1, <2>2 DEF Callers, Caller
    <3>3. \A s \in Slots : task'[d][s].pc \notin {"run", "announce", "reply"}
      BY <1>1, <2>1
    <3> QED BY <3>1, <3>2, <3>3 DEF Caller, Idle
  <2> QED BY <2>3 DEF Callers
<1>15. ASSUME UNCHANGED <<ed, reg, task>> PROVE Callers'
  BY <1>2, <1>15 DEF Turns
<1>16. ASSUME NEW e \in Editors, OnState(e) PROVE Callers'
  BY <1>15, <1>16 DEF OnState, agentVars
<1>17. CASE AutoLock \/ AutoAnnounce \/ Read \/ ReadSignals \/ ReadParks \/ ReadGivesUp
              \/ UNCHANGED vars
  BY <1>15, <1>17 DEF AutoLock, AutoAnnounce, Read, ReadSignals, ReadParks, ReadGivesUp,
                      vars, editorVars
<1> QED BY <1>3, <1>4, <1>5, <1>6, <1>7, <1>8, <1>9, <1>10, <1>11, <1>13, <1>14,
           <1>16, <1>17, StepKinds

-----------------------------------------------------------------------------
(* Every step keeps what is to be announced or answered true.              *)

EditorStep(e) ==
    \/ \E f \in Flows : Chooses(e, f)
    \/ \E f \in Flows, ok \in BOOLEAN : Handles(e, f, ok)
    \/ Quits(e) \/ Loses(e) \/ Setup(e) \/ LockCall(e) \/ ExitLocks(e)
    \/ OnState(e) \/ OnNeeded(e) \/ OnHello(e) \/ Connect(e)

\* The handlers that have their result keep it.
Aside ==
    \A d \in Editors, s \in Slots :
        \/ task'[d][s] = task[d][s]
        \/ /\ task[d][s].pc \notin {"announce", "reply"}
           /\ task'[d][s].pc \notin {"announce", "reply"}

\* A flow that goes on disturbs no handler that has its result.
LEMMA AdvanceAside ==
    ASSUME TypeOK, PromptingAlive, Handled, Callers, NEW e \in Editors, NEW f \in Flows,
           NEW ok \in BOOLEAN, Advances(e, f, ok), task[e][f] = Idle,
           f = Signal /\ flow'[e][f] \in Asking => flow[e][f] # "none"
    PROVE  Aside
<1>1. /\ \A d \in Editors, z \in Slots :
             d # e \/ z \notin {f, "cancel"} => task'[d][z] = task[d][z]
      /\ \A z \in Slots :
             \/ task'[e][z] = task[e][z]
             \/ task'[e][z].pc \in {"waiter", "lost"}
             \/ task'[e][z].pc = "run" /\ e \in reg
  BY AdvanceFacts
<1>2. \A z \in {f, "cancel"} : task[e][z].pc \notin {"announce", "reply"}
  BY IdleFacts DEF Callers, Caller
<1> QED BY <1>1, <1>2 DEF Aside

\* No step of an editor does, and none changes the session or the reader.
LEMMA EditorAside ==
    ASSUME IInv, NEW e \in Editors, EditorStep(e)
    PROVE  Aside /\ UNCHANGED <<locked, exists, timer, reader, heard, missed, raced>>
<1>0. TypeOK /\ PromptingAlive /\ Handled /\ Flights /\ Callers
  BY DEF IInv
<1>i. /\ Signal \in Flows /\ Idle.pc = "none"
      /\ {"hello", "lock", "cancel", "exit"} \subseteq Slots
  BY PromptAssumption, IdleFacts
<1>1. UNCHANGED <<locked, exists, timer, reader, heard, missed, raced>>
  <2>1. CASE (\E f \in Flows : Chooses(e, f)) \/ Setup(e) \/ LockCall(e) \/ ExitLocks(e)
    BY <2>1 DEF Chooses, Setup, LockCall, ExitLocks, agentVars, readVars
  <2>2. CASE \/ \E f \in Flows, ok \in BOOLEAN : Handles(e, f, ok)
             \/ OnState(e) \/ OnNeeded(e) \/ OnHello(e)
    BY <2>2 DEF Handles, OnState, OnNeeded, OnHello, agentVars, readVars
  <2>3. CASE Quits(e) \/ Connect(e)
    BY <2>3 DEF Quits, Connect, readVars
  <2>4. CASE Loses(e)
    BY <1>0, <2>4, LoseFacts DEF agentVars, readVars
  <2> QED BY <2>1, <2>2, <2>3, <2>4 DEF EditorStep
<1>2. ASSUME NEW f \in Flows, Chooses(e, f) PROVE Aside
  <2>1. /\ ed[e] = "up" /\ flow[e][f] \notin Waiting
        /\ f = Signal /\ flow'[e][f] \in Asking => flow[e][f] # "none"
    BY <1>2 DEF Chooses
  <2>2. PICK ok \in BOOLEAN : Advances(e, f, ok)
    BY <1>2, Zenon DEF Chooses
  <2>3. task[e][f] = Idle
    BY <1>0, <2>1 DEF Flights, Flight
  <2> QED BY <1>0, <2>1, <2>2, <2>3, AdvanceAside
<1>3. ASSUME NEW f \in Flows, NEW ok \in BOOLEAN, Handles(e, f, ok) PROVE Aside
  <2>1. /\ ed[e] \in {"up", "leaving"} /\ inbox[e] # <<>> /\ Pop(e)
        /\ Replies(Head(inbox[e]), f) /\ Advances(e, f, ok) /\ flow[e][f] # "none"
    BY <1>3 DEF Handles, Waiting
  <2>2. 1 \in 1..Len(inbox[e]) /\ Head(inbox[e]) = inbox[e][1]
    BY <1>0, <2>1, PopFacts
  <2>3. task[e][f] = Idle
    BY <1>0, <2>1, <2>2 DEF Flights, Flight, Answered
  <2> QED BY <1>0, <2>1, <2>3, AdvanceAside
<1>4. ASSUME OnNeeded(e) PROVE Aside
  <2>1. /\ ed[e] \in {"up", "leaving"}
        /\ \/ UNCHANGED <<prompting, flow, task, conn>>
           \/ /\ flow[e][Signal] = "none" /\ flow'[e][Signal] = "status"
              /\ Advances(e, Signal, FALSE)
    BY <1>0, <1>4, NeededFacts
  <2>2. CASE UNCHANGED <<prompting, flow, task, conn>>
    BY <2>2 DEF Aside
  <2>3. CASE /\ flow[e][Signal] = "none" /\ flow'[e][Signal] = "status"
             /\ Advances(e, Signal, FALSE)
    <3>1. PICK ok \in BOOLEAN : Advances(e, Signal, ok)
      BY <2>3, Zenon
    <3>2. flow'[e][Signal] \notin Asking /\ flow[e][Signal] \notin Waiting
      BY <2>3 DEF Asking, Waiting
    <3>3. task[e][Signal] = Idle
      BY <1>0, <1>i, <2>1, <3>2 DEF Flights, Flight
    <3> QED BY <1>0, <1>i, <3>1, <3>2, <3>3, AdvanceAside
  <2> QED BY <2>1, <2>2, <2>3
<1>5. ASSUME Quits(e) PROVE Aside
  <2>1. /\ \A d \in Editors, s \in Slots :
               task'[d][s] = task[d][s] \/ task'[d][s] = Idle
        /\ \A d \in Editors, s \in Slots :
               task[d][s].pc \in {"announce", "reply"} => task'[d][s] = task[d][s]
    BY <1>0, <1>5, QuitFacts
  <2> QED BY <1>i, <2>1 DEF Aside
<1>6. ASSUME ed[e] # "gone", e \notin reg, NEW s \in Slots
      PROVE  task[e][s].pc \notin {"announce", "reply"}
  BY <1>0, <1>6 DEF Callers, Caller
<1>7. ASSUME Loses(e) PROVE Aside
  <2>1. /\ ed[e] \in {"up", "leaving"} /\ e \notin reg
        /\ \A d \in Editors \ {e}, s \in Slots : task'[d][s] = task[d][s]
        /\ \A s \in Slots : task'[e][s].pc \in {"none", "waiter"}
    BY <1>0, <1>7, LoseFacts
  <2> QED BY <1>6, <2>1 DEF Aside
<1>8. ASSUME LockCall(e) \/ ExitLocks(e) PROVE Aside
  <2>1. /\ ed[e] = "up"
        /\ \E s \in {"lock", "exit"} :
               /\ s = "lock" => task[e][s] = Idle
               /\ s = "exit" => ed'[e] = "leaving"
               /\ task'[e][s].pc \in {"waiter", "lost", "run"}
               /\ task'[e][s].pc = "run" => e \in reg
               /\ \A d \in Editors, z \in Slots :
                      d # e \/ z # s => task'[d][z] = task[d][z]
    BY <1>0, <1>8, CallFacts
  <2>2. task[e]["exit"] = Idle
    BY <1>0, <2>1 DEF Callers, Caller
  <2> QED BY <1>i, <2>1, <2>2 DEF Aside
<1>9. ASSUME OnHello(e) PROVE Aside
  <2>1. /\ \A d \in Editors \ {e}, s \in Slots : task'[d][s] = task[d][s]
        /\ \A s \in Slots :
               \/ task'[e][s] = task[e][s]
               \/ /\ task[e][s].pc = "waiter" /\ task'[e][s].op = task[e][s].op
                  /\ \/ task'[e][s].pc = "run" /\ e \in reg
                     \/ task'[e][s].pc = "lost"
    BY <1>0, <1>9, HelloFacts
  <2> SUFFICES ASSUME NEW d \in Editors, NEW s \in Slots
               PROVE  \/ task'[d][s] = task[d][s]
                      \/ /\ task[d][s].pc \notin {"announce", "reply"}
                         /\ task'[d][s].pc \notin {"announce", "reply"}
    BY DEF Aside
  <2>2. CASE d = e
    BY <2>1, <2>2
  <2>3. CASE d # e
    BY <2>1, <2>3
  <2> QED BY <2>2, <2>3
<1>10. ASSUME Connect(e) PROVE Aside
  <2>1. /\ ed[e] \in {"up", "leaving"} /\ e \notin reg
        /\ task'[e]["hello"].pc = "run"
        /\ \A d \in Editors, z \in Slots :
               d # e \/ z # "hello" => task'[d][z] = task[d][z]
    BY <1>0, <1>10, ConnectFacts
  <2> QED BY <1>6, <2>1 DEF Aside
<1>11. ASSUME Setup(e) \/ OnState(e) PROVE Aside
  BY <1>11 DEF Setup, OnState, Aside
<1> QED BY <1>1, <1>2, <1>3, <1>4, <1>5, <1>7, <1>8, <1>9, <1>10, <1>11 DEF EditorStep

\* Then nothing begins or stops being announced.
LEMMA AsideAnnouncing ==
    ASSUME Aside, UNCHANGED timer
    PROVE  Announcing' <=> Announcing
  BY DEF Aside, Announcing

\* What is to be sent stays true while the session stays.
LEMMA TruthKept ==
    ASSUME Truthful, locked' = locked, raced => raced',
           timer' = "announce" => timer = "announce",
           \A d \in Editors, s \in Slots :
               /\ task'[d][s].pc = "announce" => task'[d][s] = task[d][s]
               /\ task'[d][s].pc = "reply" /\ task'[d][s].op = "status" =>
                      \/ task'[d][s] = task[d][s]
                      \/ task'[d][s].answer.locked = locked
    PROVE  Truthful'
<1> SUFFICES ASSUME ~raced'
             PROVE  /\ timer' = "announce" => locked'
                    /\ \A d \in Editors, s \in Slots :
                           LET t == task'[d][s] IN
                           /\ t.pc = "announce" => (t.op = "lock" <=> locked')
                           /\ t.pc = "reply" /\ t.op = "status" =>
                                  t.answer.locked = locked'
  BY DEF Truthful
<1> QED BY DEF Truthful

\* Every step keeps what is to be sent true, or is a race.
LEMMA TruthfulStep ==
    ASSUME IInv, [Next]_vars
    PROVE  Truthful'
<1>0. TypeOK /\ Handled /\ Truthful /\ Idle.pc = "none"
  BY IdleFacts DEF IInv
<1>i. locked \in BOOLEAN /\ AgentTypes
  BY <1>0 DEF TypeOK, AgentTypes
<1>1. ASSUME NEW e \in Editors, EditorStep(e) PROVE Truthful'
  BY <1>0, <1>1, EditorAside, TruthKept DEF Aside
<1>2. ASSUME NEW e \in Editors, NEW s \in Slots,
             RunStatus(e, s) \/ RunInstall(e, s) \/ RunFails(e, s) \/ RunLock(e, s)
      PROVE  Truthful'
  <2>1. /\ task[e][s].pc = "run" /\ task'[e][s].op = task[e][s].op
        /\ Looked(e, s) \/ Changed(e, s) \/ Left(e, s)
        /\ \A d \in Editors, z \in Slots :
               d # e \/ z # s => task'[d][z] = task[d][z]
    BY <1>0, <1>2, RunFacts
  <2>2. CASE Looked(e, s)
    <3>1. /\ UNCHANGED <<timer, locked, raced>>
          /\ task'[e][s].pc = "reply" /\ task'[e][s].answer.locked = locked
      BY <1>i, <2>2, StatusFacts DEF Looked, agentVars
    <3> QED BY <1>0, <2>1, <3>1, TruthKept
  <2>3. CASE Left(e, s)
    <3>1. /\ timer' = timer /\ locked' = locked /\ (raced => raced')
      <4>1. CASE UNCHANGED agentVars
        BY <4>1 DEF agentVars
      <4>2. CASE /\ locked /\ UNCHANGED <<reg, exists, timer, deaths>>
                 /\ \E l \in BOOLEAN : l /\ SetLocked(l)
        BY <1>0, <1>i, <4>2, SetLockedFacts
      <4> QED BY <2>3, <4>1, <4>2 DEF Left
    <3>2. task'[e][s].pc = "reply" /\ task'[e][s].op # "status"
      BY <2>1, <2>3 DEF Left
    <3> QED BY <1>0, <2>1, <3>1, <3>2, TruthKept
  <2>4. CASE Changed(e, s)
    <3>1. PICK l \in BOOLEAN : SetLocked(l) /\ (l <=> task[e][s].op = "lock")
      BY <2>4 DEF Changed
    <3>2. /\ locked' = l /\ (raced => raced') /\ (l # locked /\ Unsent => raced')
          /\ timer' = timer /\ task'[e][s].pc = "announce"
      BY <1>0, <2>4, <3>1, SetLockedFacts DEF Changed
    <3> SUFFICES ASSUME ~raced'
                 PROVE  /\ timer' = "announce" => locked'
                        /\ \A d \in Editors, z \in Slots :
                               LET t == task'[d][z] IN
                               /\ t.pc = "announce" => (t.op = "lock" <=> locked')
                               /\ t.pc = "reply" /\ t.op = "status" =>
                                      t.answer.locked = locked'
      BY DEF Truthful
    <3>3. ~raced /\ (l = locked \/ ~Unsent)
      BY <3>2
    <3>4. timer' = "announce" => locked'
      BY <1>0, <1>i, <3>2, <3>3 DEF Truthful, Unsent, Announcing
    <3>5. ASSUME NEW d \in Editors, NEW z \in Slots, d # e \/ z # s
          PROVE  LET t == task'[d][z] IN
                 /\ t.pc = "announce" => (t.op = "lock" <=> locked')
                 /\ t.pc = "reply" /\ t.op = "status" => t.answer.locked = locked'
      <4>1. task'[d][z] = task[d][z]
        BY <2>1, <3>5
      <4>2. CASE l = locked
        BY <1>0, <3>2, <3>3, <4>1, <4>2 DEF Truthful
      <4>3. CASE ~Unsent
        BY <4>1, <4>3 DEF Unsent, Announcing
      <4> QED BY <3>3, <4>2, <4>3
    <3>6. LET t == task'[e][s] IN
          /\ t.pc = "announce" => (t.op = "lock" <=> locked')
          /\ t.pc = "reply" /\ t.op = "status" => t.answer.locked = locked'
      BY <2>1, <3>1, <3>2
    <3> QED BY <3>4, <3>5, <3>6
  <2> QED BY <2>1, <2>2, <2>3, <2>4
<1>3. ASSUME NEW e \in Editors, NEW s \in Slots, Serve(e, s) PROVE Truthful'
  <2>1. CASE RunCancel(e, s)
    <3>1. /\ UNCHANGED <<locked, timer, raced>> /\ task'[e][s] = Idle
          /\ \A d \in Editors, z \in Slots :
                 d # e \/ z # s => task'[d][z] = task[d][z]
      BY <1>0, <2>1, CancelFacts
    <3> QED BY <1>0, <3>1, TruthKept
  <2>2. CASE Announce(e, s)
    <3>1. /\ UNCHANGED agentVars /\ task[e][s].op # "status"
          /\ task'[e][s].pc = "reply" /\ task'[e][s].op = task[e][s].op
          /\ \A d \in Editors, z \in Slots :
                 d # e \/ z # s => task'[d][z] = task[d][z]
      BY <1>0, <2>2, AnnounceFacts
    <3>2. UNCHANGED <<locked, timer, raced>>
      BY <3>1 DEF agentVars
    <3> QED BY <1>0, <3>1, <3>2, TruthKept
  <2>3. CASE Reply(e, s)
    <3>1. /\ UNCHANGED agentVars /\ task'[e][s] = Idle
          /\ \A d \in Editors, z \in Slots :
                 d # e \/ z # s => task'[d][z] = task[d][z]
      BY <1>0, <2>3, ReplyFacts
    <3>2. UNCHANGED <<locked, timer, raced>>
      BY <3>1 DEF agentVars
    <3> QED BY <1>0, <3>1, <3>2, TruthKept
  <2> QED BY <1>2, <1>3, <2>1, <2>2, <2>3 DEF Serve
<1>4. CASE AutoLock
  <2>1. /\ UNCHANGED task /\ ~locked /\ timer' = "announce"
    BY <1>4 DEF AutoLock
  <2>2. PICK l \in BOOLEAN : l /\ SetLocked(l)
    BY <1>4, Zenon DEF AutoLock
  <2>3. locked' = l /\ (l # locked /\ Unsent => raced')
    BY <1>0, <2>2, SetLockedFacts
  <2> SUFFICES ASSUME ~raced'
               PROVE  /\ timer' = "announce" => locked'
                      /\ \A d \in Editors, z \in Slots :
                             LET t == task'[d][z] IN
                             /\ t.pc = "announce" => (t.op = "lock" <=> locked')
                             /\ t.pc = "reply" /\ t.op = "status" =>
                                    t.answer.locked = locked'
    BY DEF Truthful
  <2>4. ~Unsent
    BY <1>i, <2>1, <2>2, <2>3
  <2> QED BY <2>1, <2>2, <2>3, <2>4 DEF Unsent, Announcing
<1>5. CASE AutoAnnounce
  <2>1. UNCHANGED <<task, locked, raced>> /\ timer' = "idle"
    BY <1>5 DEF AutoAnnounce
  <2> QED BY <1>0, <2>1, TruthKept
<1>6. CASE Read \/ ReadSignals \/ ReadParks \/ ReadGivesUp \/ UNCHANGED vars
  <2>1. UNCHANGED <<task, locked, raced, timer>>
    BY <1>6 DEF Read, ReadSignals, ReadParks, ReadGivesUp, vars
  <2> QED BY <1>0, <2>1, TruthKept
<1>7. CASE AgentDies
  <2>1. /\ locked' /\ AgentTypes' /\ timer' = "idle"
        /\ \A d \in Editors, s \in Slots : task'[d][s].pc \notin {"announce", "reply"}
    BY <1>0, <1>7, DeathFacts
  <2> QED BY <2>1 DEF Truthful
<1> QED BY <1>1, <1>3, <1>4, <1>5, <1>6, <1>7, StepKinds DEF EditorStep

-----------------------------------------------------------------------------
(* The cache, as a function of one editor's flows and messages.            *)

SetsIn(fl, m) ==
    \/ m.kind = "state"
    \/ m.kind = "answer" /\ m.to = "hello"
    \/ m.kind = "answer" /\ m.to \in Flows /\ fl[m.to] = "ensure"
ShowsIn(fl, u, box, n, v) ==
    \/ /\ \A i \in 1..n : ~SetsIn(fl, box[i])
       /\ u = v
    \/ \E i \in 1..n : /\ SetsIn(fl, box[i])
                       /\ box[i].locked = ~v
                       /\ \A j \in (i + 1)..n : ~SetsIn(fl, box[j])

\* The cache after n messages, by one editor's own state.
LEMMA ShowsHere ==
    \A e, n, v : Shows(e, n, v) <=> ShowsIn(flow[e], unlocked[e], inbox[e], n, v)
  BY DEF Shows, ShowsIn, Sets, SetsIn

\* A flow that has no answer in store does not change what sets the cache.
LEMMA SetsKept ==
    ASSUME NEW fl, NEW fl2, NEW m,
           \A g \in Flows : fl2[g] = fl[g] \/ ~Replies(m, g)
    PROVE  SetsIn(fl2, m) <=> SetsIn(fl, m)
  BY DEF SetsIn, Replies

\* The cache depends on the messages, and on which of them set it.
LEMMA ShowsSame ==
    ASSUME NEW fl, NEW fl2, NEW u, NEW box, NEW box2, NEW n \in Nat, NEW v,
           \A i \in 1..n : box2[i] = box[i],
           \A i \in 1..n : SetsIn(fl2, box[i]) <=> SetsIn(fl, box[i]),
           ShowsIn(fl, u, box, n, v)
    PROVE  ShowsIn(fl2, u, box2, n, v)
<1>1. CASE (\A i \in 1..n : ~SetsIn(fl, box[i])) /\ u = v
  BY <1>1 DEF ShowsIn
<1>2. CASE \E i \in 1..n : /\ SetsIn(fl, box[i])
                           /\ box[i].locked = ~v
                           /\ \A j \in (i + 1)..n : ~SetsIn(fl, box[j])
  <2>1. PICK i \in 1..n : /\ SetsIn(fl, box[i])
                          /\ box[i].locked = ~v
                          /\ \A j \in (i + 1)..n : ~SetsIn(fl, box[j])
    BY <1>2
  <2>2. SetsIn(fl2, box2[i]) /\ box2[i].locked = ~v
    BY <2>1
  <2>3. \A j \in (i + 1)..n : j \in 1..n
    OBVIOUS
  <2>4. \A j \in (i + 1)..n : ~SetsIn(fl2, box2[j])
    BY <2>1, <2>3
  <2> QED BY <2>2, <2>4 DEF ShowsIn
<1> QED BY <1>1, <1>2 DEF ShowsIn

\* The last message sets the cache, or leaves it.
LEMMA ShowsLast ==
    ASSUME NEW fl, NEW u, NEW box, NEW n \in Nat, NEW v
    PROVE  /\ SetsIn(fl, box[n + 1]) /\ box[n + 1].locked = ~v
                  => ShowsIn(fl, u, box, n + 1, v)
           /\ ~SetsIn(fl, box[n + 1]) /\ ShowsIn(fl, u, box, n, v)
                  => ShowsIn(fl, u, box, n + 1, v)
<1>1. ASSUME SetsIn(fl, box[n + 1]), box[n + 1].locked = ~v
      PROVE  ShowsIn(fl, u, box, n + 1, v)
  <2>1. n + 1 \in 1..(n + 1) /\ \A j \in ((n + 1) + 1)..(n + 1) : FALSE
    OBVIOUS
  <2> QED BY <1>1, <2>1 DEF ShowsIn
<1>2. ASSUME ~SetsIn(fl, box[n + 1]), ShowsIn(fl, u, box, n, v)
      PROVE  ShowsIn(fl, u, box, n + 1, v)
  <2>1. CASE (\A i \in 1..n : ~SetsIn(fl, box[i])) /\ u = v
    <3>1. \A i \in 1..(n + 1) : i \in 1..n \/ i = n + 1
      OBVIOUS
    <3> QED BY <1>2, <2>1, <3>1 DEF ShowsIn
  <2>2. ASSUME NEW i \in 1..n, SetsIn(fl, box[i]), box[i].locked = ~v,
               \A j \in (i + 1)..n : ~SetsIn(fl, box[j])
        PROVE  ShowsIn(fl, u, box, n + 1, v)
    <3>1. /\ i \in 1..(n + 1)
          /\ \A j \in (i + 1)..(n + 1) : j \in (i + 1)..n \/ j = n + 1
      OBVIOUS
    <3>2. \A j \in (i + 1)..(n + 1) : ~SetsIn(fl, box[j])
      BY <1>2, <2>2, <3>1
    <3> QED BY <2>2, <3>1, <3>2 DEF ShowsIn
  <2> QED BY <1>2, <2>1, <2>2 DEF ShowsIn
<1> QED BY <1>1, <1>2

\* Handling the first message is what the cache foresaw.
LEMMA ShowsPopped ==
    ASSUME NEW fl, NEW fl2, NEW u, NEW u2, NEW box, NEW box2, NEW n \in Nat,
           NEW v \in BOOLEAN,
           \A i \in 1..n : box2[i] = box[i + 1],
           \A i \in 2..(n + 1) : SetsIn(fl2, box[i]) <=> SetsIn(fl, box[i]),
           SetsIn(fl, box[1]) => u2 = ~box[1].locked,
           ~SetsIn(fl, box[1]) => u2 = u,
           ShowsIn(fl, u, box, n + 1, v)
    PROVE  ShowsIn(fl2, u2, box2, n, v)
<1>0. /\ \A i \in 1..n : i + 1 \in 1..(n + 1) /\ i + 1 \in 2..(n + 1)
      /\ 1 \in 1..(n + 1)
  OBVIOUS
<1>a. \A i \in 1..n : SetsIn(fl2, box2[i]) <=> SetsIn(fl, box[i + 1])
  BY <1>0
<1>1. CASE (\A i \in 1..(n + 1) : ~SetsIn(fl, box[i])) /\ u = v
  <2>1. \A i \in 1..n : ~SetsIn(fl2, box2[i])
    BY <1>0, <1>a, <1>1
  <2> QED BY <1>0, <1>1, <2>1 DEF ShowsIn
<1>2. ASSUME NEW k \in 1..(n + 1), SetsIn(fl, box[k]), box[k].locked = ~v,
             \A j \in (k + 1)..(n + 1) : ~SetsIn(fl, box[j])
      PROVE  ShowsIn(fl2, u2, box2, n, v)
  <2>1. CASE k = 1
    <3>1. u2 = v
      BY <1>2, <2>1
    <3>2. \A i \in 1..n : i + 1 \in (k + 1)..(n + 1)
      BY <2>1
    <3>3. \A i \in 1..n : ~SetsIn(fl2, box2[i])
      BY <1>a, <1>2, <3>2
    <3> QED BY <3>1, <3>3 DEF ShowsIn
  <2>2. CASE k # 1
    <3>1. /\ k - 1 \in 1..n /\ (k - 1) + 1 = k
          /\ \A j \in ((k - 1) + 1)..n : j \in 1..n /\ j + 1 \in (k + 1)..(n + 1)
      BY <2>2
    <3>2. SetsIn(fl2, box2[k - 1]) /\ box2[k - 1].locked = ~v
      BY <1>a, <1>2, <3>1
    <3>3. \A j \in ((k - 1) + 1)..n : ~SetsIn(fl2, box2[j])
      BY <1>a, <1>2, <3>1
    <3> QED BY <3>1, <3>2, <3>3 DEF ShowsIn
  <2> QED BY <2>1, <2>2
<1> QED BY <1>1, <1>2 DEF ShowsIn

-----------------------------------------------------------------------------
(* What a step of an editor does to the others, and to its own messages.   *)

Untouched(d) ==
    /\ ed'[d] = ed[d] /\ conn'[d] = conn[d] /\ inbox'[d] = inbox[d]
    /\ flow'[d] = flow[d] /\ unlocked'[d] = unlocked[d]
    /\ prompting'[d] <=> prompting[d]
    /\ d \in reg' <=> d \in reg
    /\ \A s \in Slots : task'[d][s] = task[d][s]

\* A flow that goes on leaves the other editors untouched.
LEMMA AdvanceLocal ==
    ASSUME TypeOK, TypeOK', PromptingAlive, Handled, NEW e \in Editors, NEW f \in Flows,
           NEW ok \in BOOLEAN, Advances(e, f, ok),
           f = Signal /\ flow'[e][f] \in Asking => flow[e][f] # "none",
           UNCHANGED <<ed, reg>>, NEW d \in Editors \ {e},
           inbox'[d] = inbox[d], unlocked'[d] = unlocked[d]
    PROVE  Untouched(d)
<1>1. /\ flow' \in [Editors -> [Flows -> Stages]]
      /\ \A c \in Editors, g \in Flows :
             c # e \/ g # f => flow'[c][g] = flow[c][g]
      /\ PromptingAlive'
      /\ \A c \in Editors, z \in Slots :
             c # e \/ z \notin {f, "cancel"} => task'[c][z] = task[c][z]
      /\ \A c \in Editors :
             \/ conn'[c] = conn[c]
             \/ c = e /\ conn[c] = "down" /\ conn'[c] = "dialing"
  BY AdvanceFacts
<1>2. flow'[d] = flow[d]
  <2>1. flow[d] \in [Flows -> Stages] /\ flow'[d] \in [Flows -> Stages]
    BY <1>1 DEF TypeOK, EditorTypes, Stages
  <2>2. \A g \in Flows : flow'[d][g] = flow[d][g]
    BY <1>1
  <2> QED BY <2>1, <2>2
<1>3. prompting'[d] <=> prompting[d]
  BY <1>1, <1>2 DEF PromptingAlive
<1>4. conn'[d] = conn[d] /\ \A s \in Slots : task'[d][s] = task[d][s]
  BY <1>1
<1> QED BY <1>2, <1>3, <1>4 DEF Untouched

\* So does every step of an editor.
LEMMA EditorLocal ==
    ASSUME IInv, [Next]_vars, NEW e \in Editors, EditorStep(e), NEW d \in Editors \ {e}
    PROVE  Untouched(d)
<1>0. TypeOK /\ TypeOK' /\ PromptingAlive /\ PromptingAlive' /\ Handled
  BY BasicsStep DEF IInv
<1>i. /\ Signal \in Flows /\ ed \in [Editors -> {"off", "up", "leaving", "gone"}]
      /\ unlocked \in [Editors -> BOOLEAN] /\ task \in [Editors -> [Slots -> Tasks]]
      /\ conn \in [Editors -> {"down", "dialing", "up", "ready"}]
  BY <1>0, PromptAssumption DEF TypeOK, EditorTypes
<1>1. ASSUME inbox[e] # <<>>, Pop(e) PROVE inbox'[d] = inbox[d]
  BY <1>0, <1>1, PopFacts
<1>2. ASSUME NEW f \in Flows, Chooses(e, f) PROVE Untouched(d)
  <2>1. /\ f = Signal /\ flow'[e][f] \in Asking => flow[e][f] # "none"
        /\ UNCHANGED <<ed, unlocked, inbox, reg>>
    BY <1>2 DEF Chooses, agentVars
  <2>2. PICK ok \in BOOLEAN : Advances(e, f, ok)
    BY <1>2, Zenon DEF Chooses
  <2> QED BY <1>0, <2>1, <2>2, AdvanceLocal
<1>3. ASSUME NEW f \in Flows, NEW ok \in BOOLEAN, Handles(e, f, ok) PROVE Untouched(d)
  <2>1. /\ inbox[e] # <<>> /\ Pop(e) /\ Advances(e, f, ok) /\ flow[e][f] # "none"
        /\ unlocked' = IF flow[e][f] = "ensure"
                       THEN [unlocked EXCEPT ![e] = ~Head(inbox[e]).locked]
                       ELSE unlocked
        /\ UNCHANGED <<ed, reg>>
    BY <1>3 DEF Handles, Waiting, agentVars
  <2>2. unlocked'[d] = unlocked[d] /\ inbox'[d] = inbox[d]
    BY <1>1, <1>i, <2>1
  <2> QED BY <1>0, <2>1, <2>2, AdvanceLocal
<1>4. ASSUME OnNeeded(e) PROVE Untouched(d)
  <2>1. /\ inbox[e] # <<>> /\ Pop(e) /\ UNCHANGED <<ed, unlocked, agentVars>>
        /\ \/ UNCHANGED <<prompting, flow, task, conn>>
           \/ flow'[e][Signal] = "status" /\ Advances(e, Signal, FALSE)
    BY <1>0, <1>4, NeededFacts
  <2>2. inbox'[d] = inbox[d] /\ UNCHANGED reg
    BY <1>1, <2>1 DEF agentVars
  <2>3. CASE UNCHANGED <<prompting, flow, task, conn>>
    BY <2>1, <2>2, <2>3 DEF Untouched
  <2>4. CASE flow'[e][Signal] = "status" /\ Advances(e, Signal, FALSE)
    <3>1. PICK ok \in BOOLEAN : Advances(e, Signal, ok)
      BY <2>4, Zenon
    <3>2. flow'[e][Signal] \notin Asking
      BY <2>4 DEF Asking
    <3> QED BY <1>0, <1>i, <2>1, <2>2, <3>1, <3>2, AdvanceLocal
  <2> QED BY <2>1, <2>3, <2>4
<1>5. ASSUME Quits(e) PROVE Untouched(d)
  <2>1. /\ reg' = reg \ {e}
        /\ \A c \in Editors \ {e} :
               /\ ed'[c] = ed[c] /\ conn'[c] = conn[c] /\ inbox'[c] = inbox[c]
               /\ flow'[c] = flow[c] /\ prompting'[c] = prompting[c]
        /\ \A c \in Editors \ {e}, s \in Slots : task'[c][s] = task[c][s]
    BY <1>0, <1>5, QuitFacts
  <2>2. UNCHANGED unlocked
    BY <1>5 DEF Quits
  <2> QED BY <2>1, <2>2 DEF Untouched
<1>6. ASSUME Loses(e) PROVE Untouched(d)
  <2>1. /\ UNCHANGED <<ed, unlocked, inbox, events, agentVars>>
        /\ \A c \in Editors \ {e} : /\ flow'[c] = flow[c] /\ conn'[c] = conn[c]
                                    /\ prompting'[c] = prompting[c]
        /\ \A c \in Editors \ {e}, s \in Slots : task'[c][s] = task[c][s]
    BY <1>0, <1>6, LoseFacts
  <2> QED BY <2>1 DEF Untouched, agentVars
<1>7. ASSUME Setup(e) PROVE Untouched(d)
  BY <1>i, <1>7 DEF Setup, Untouched, agentVars
<1>8. ASSUME LockCall(e) \/ ExitLocks(e) PROVE Untouched(d)
  <2>1. /\ UNCHANGED <<unlocked, prompting, flow, inbox, agentVars>>
        /\ UNCHANGED ed \/ ed' = [ed EXCEPT ![e] = "leaving"]
        /\ \E s \in {"lock", "exit"} :
               /\ s = "lock" => task[e][s] = Idle
               /\ s = "exit" => ed'[e] = "leaving"
               /\ task'[e][s].pc \in {"waiter", "lost", "run"}
               /\ task'[e][s].pc = "run" => e \in reg
               /\ \A c \in Editors, z \in Slots :
                      c # e \/ z # s => task'[c][z] = task[c][z]
        /\ \A c \in Editors :
               \/ conn'[c] = conn[c]
               \/ c = e /\ conn[c] = "down" /\ conn'[c] = "dialing"
    BY <1>0, <1>8, CallFacts
  <2>2. ed'[d] = ed[d] /\ conn'[d] = conn[d]
    BY <1>i, <2>1
  <2> QED BY <2>1, <2>2 DEF Untouched, agentVars
<1>9. ASSUME OnState(e) PROVE Untouched(d)
  <2>1. inbox[e] # <<>> /\ Pop(e)
    BY <1>9 DEF OnState, Takes
  <2> QED BY <1>1, <1>i, <1>9, <2>1 DEF OnState, Untouched, agentVars
<1>10. ASSUME OnHello(e) PROVE Untouched(d)
  <2>1. /\ inbox[e] # <<>> /\ Pop(e)
        /\ unlocked' = [unlocked EXCEPT ![e] = ~Head(inbox[e]).locked]
        /\ \A c \in Editors \ {e} : conn'[c] = conn[c]
        /\ UNCHANGED <<ed, prompting, flow, agentVars>>
        /\ \A c \in Editors \ {e}, s \in Slots : task'[c][s] = task[c][s]
    BY <1>0, <1>10, HelloFacts
  <2>2. unlocked'[d] = unlocked[d] /\ inbox'[d] = inbox[d]
    BY <1>1, <1>i, <2>1
  <2> QED BY <2>1, <2>2 DEF Untouched, agentVars
<1>11. ASSUME Connect(e) PROVE Untouched(d)
  <2>1. /\ reg' = reg \cup {e} /\ \A c \in Editors \ {e} : conn'[c] = conn[c]
        /\ UNCHANGED <<ed, unlocked, prompting, flow, inbox, locked, exists, timer,
                       readVars, deaths, raced>>
        /\ \A c \in Editors, z \in Slots :
               c # e \/ z # "hello" => task'[c][z] = task[c][z]
    BY <1>0, <1>11, ConnectFacts
  <2> QED BY <2>1 DEF Untouched
<1> QED BY <1>2, <1>3, <1>4, <1>5, <1>6, <1>7, <1>8, <1>9, <1>10, <1>11 DEF EditorStep

\* Its messages stay, or it handles the first.
Stays(e) ==
    /\ inbox'[e] = inbox[e] /\ unlocked'[e] = unlocked[e]
    /\ \A i \in 1..Len(inbox[e]) :
           SetsIn(flow'[e], inbox[e][i]) <=> SetsIn(flow[e], inbox[e][i])
Pops(e) ==
    /\ inbox[e] # <<>> /\ Pop(e)
    /\ SetsIn(flow[e], Head(inbox[e])) => unlocked'[e] = ~Head(inbox[e]).locked
    /\ ~SetsIn(flow[e], Head(inbox[e])) => unlocked'[e] = unlocked[e]
    /\ \A i \in 2..Len(inbox[e]) :
           SetsIn(flow'[e], inbox[e][i]) <=> SetsIn(flow[e], inbox[e][i])

\* It goes on waiting for what it waits for.
Endures(e) ==
    /\ e \in reg
    /\ Stays(e) \/ Pops(e)
    /\ conn'[e] = "ready" => Seeded(e)
    /\ task[e]["cancel"] # Idle => task'[e]["cancel"] # Idle
    /\ prompting[e] => \/ prompting'[e] \/ task'[e]["cancel"] # Idle
                       \/ Pops(e) /\ Head(inbox[e]) = Done(Signal, TRUE)
    /\ Pops(e) /\ Head(inbox[e]) = Needed /\ ~unlocked[e] => prompting'[e]

\* An editor that is connected after its step keeps its messages or
\* handles the first, or has just connected.
LEMMA EditorSelf ==
    ASSUME IInv, [Next]_vars, NEW e \in Editors, EditorStep(e), e \in reg'
    PROVE  Endures(e) \/ Connect(e)
<1>0. TypeOK /\ TypeOK' /\ PromptingAlive /\ PromptingAlive' /\ Handled /\ Flights /\ Callers
  BY BasicsStep DEF IInv
<1>i. /\ Signal \in Flows /\ unlocked \in [Editors -> BOOLEAN]
      /\ inbox \in [Editors -> Seq(Messages)] /\ Len(inbox[e]) \in Nat
      /\ \A g \in Flows : g \in Slots /\ g \notin {"hello", "lock", "cancel", "exit"}
      /\ Idle.pc = "none" /\ "cancel" \in Slots
      /\ Needed.kind = "needed"
  BY <1>0, PromptAssumption, IdleFacts, MessageFacts DEF TypeOK, EditorTypes
<1>1. ASSUME inbox[e] # <<>>, Pop(e)
      PROVE  /\ inbox'[e] # inbox[e] /\ Head(inbox[e]) = inbox[e][1]
             /\ 1 \in 1..Len(inbox[e])
  BY <1>0, <1>1, PopFacts
<1>2. ASSUME NEW f \in Flows, Chooses(e, f) PROVE Endures(e)
  <2>1. /\ ed[e] = "up" /\ flow[e][f] \notin Waiting
        /\ f = Signal /\ flow'[e][f] \in Asking => flow[e][f] # "none"
        /\ UNCHANGED <<unlocked, inbox, reg>>
    BY <1>2 DEF Chooses, agentVars
  <2>2. PICK ok \in BOOLEAN : ~ok /\ Advances(e, f, ok)
    BY <1>2, Zenon DEF Chooses
  <2>3. /\ \A d \in Editors, g \in Flows :
               d # e \/ g # f => flow'[d][g] = flow[d][g]
        /\ task[e]["cancel"] # Idle => task'[e]["cancel"] # Idle
        /\ \A d \in Editors :
               \/ conn'[d] = conn[d]
               \/ d = e /\ conn[d] = "down" /\ conn'[d] = "dialing"
        /\ prompting[e] => prompting'[e] \/ ok \/ task'[e]["cancel"] # Idle
    BY <1>0, <2>1, <2>2, AdvanceFacts
  <2>4. \A i \in 1..Len(inbox[e]) : ~Replies(inbox[e][i], f)
    BY <1>0, <2>1 DEF Flights, Flight, Answered
  <2>5. ASSUME NEW i \in 1..Len(inbox[e])
        PROVE  SetsIn(flow'[e], inbox[e][i]) <=> SetsIn(flow[e], inbox[e][i])
    BY <2>3, <2>4, SetsKept
  <2>6. Stays(e) /\ ~Pops(e)
    BY <1>1, <2>1, <2>5 DEF Stays, Pops
  <2>7. conn'[e] = "ready" => Seeded(e)
    BY <2>3 DEF Seeded
  <2> QED BY <2>1, <2>2, <2>3, <2>6, <2>7 DEF Endures
<1>3. ASSUME NEW f \in Flows, NEW ok \in BOOLEAN, Handles(e, f, ok) PROVE Endures(e)
  <2>1. /\ ed[e] \in {"up", "leaving"} /\ inbox[e] # <<>> /\ Pop(e)
        /\ Replies(Head(inbox[e]), f) /\ Advances(e, f, ok) /\ flow[e][f] # "none"
        /\ ok /\ flow[e][f] # "ensure" => Head(inbox[e]) = Done(f, TRUE)
        /\ unlocked' = IF flow[e][f] = "ensure"
                       THEN [unlocked EXCEPT ![e] = ~Head(inbox[e]).locked]
                       ELSE unlocked
        /\ UNCHANGED reg
    BY <1>3 DEF Handles, Waiting, agentVars
  <2>2. /\ \A d \in Editors, g \in Flows :
               d # e \/ g # f => flow'[d][g] = flow[d][g]
        /\ task[e]["cancel"] # Idle => task'[e]["cancel"] # Idle
        /\ \A d \in Editors :
               \/ conn'[d] = conn[d]
               \/ d = e /\ conn[d] = "down" /\ conn'[d] = "dialing"
        /\ prompting[e] => prompting'[e] \/ ok \/ task'[e]["cancel"] # Idle
        /\ f # Signal \/ flow'[e][f] # "none" =>
               \A d \in Editors : prompting[d] => prompting'[d]
    BY <1>0, <2>1, AdvanceFacts
  <2>3. \A i \in 2..Len(inbox[e]) : ~Replies(inbox[e][i], f)
    <3>1. Flight(e, f)
      BY <1>0, <2>1 DEF Flights
    <3>2. Replies(inbox[e][1], f) /\ 1 \in 1..Len(inbox[e])
      BY <1>1, <2>1
    <3>3. \A i \in 2..Len(inbox[e]) : i \in 1..Len(inbox[e]) /\ i # 1
      BY <1>i
    <3> QED BY <3>1, <3>2, <3>3 DEF Flight
  <2>4. ASSUME NEW i \in 2..Len(inbox[e])
        PROVE  SetsIn(flow'[e], inbox[e][i]) <=> SetsIn(flow[e], inbox[e][i])
    BY <2>2, <2>3, SetsKept
  <2>5. SetsIn(flow[e], Head(inbox[e])) <=> flow[e][f] = "ensure"
    BY <1>i, <2>1 DEF SetsIn, Replies
  <2>6. /\ flow[e][f] = "ensure" => unlocked'[e] = ~Head(inbox[e]).locked
        /\ flow[e][f] # "ensure" => unlocked'[e] = unlocked[e]
    BY <1>i, <2>1
  <2>7. Pops(e)
    BY <2>1, <2>4, <2>5, <2>6 DEF Pops
  <2>8. Head(inbox[e]) # Needed
    BY <1>i, <2>1 DEF Replies
  <2>9. prompting[e] => \/ prompting'[e] \/ task'[e]["cancel"] # Idle
                        \/ Head(inbox[e]) = Done(Signal, TRUE)
    <3>1. CASE f # Signal
      BY <2>2, <3>1
    <3>2. CASE f = Signal
      <4>1. flow[e][f] # "ensure"
        BY <1>0, <2>1, <3>2 DEF Flights
      <4>2. ok => Head(inbox[e]) = Done(Signal, TRUE)
        BY <2>1, <3>2, <4>1
      <4> QED BY <2>2, <4>2
    <3> QED BY <3>1, <3>2
  <2>10. conn'[e] = "ready" => Seeded(e)
    BY <2>2 DEF Seeded
  <2> QED BY <2>1, <2>2, <2>7, <2>8, <2>9, <2>10 DEF Endures
<1>4. ASSUME OnNeeded(e) PROVE Endures(e)
  <2>1. /\ ed[e] \in {"up", "leaving"} /\ inbox[e] # <<>> /\ Pop(e)
        /\ Head(inbox[e]).kind = "needed" /\ UNCHANGED <<unlocked, agentVars>>
        /\ \/ /\ prompting[e] \/ unlocked[e]
              /\ UNCHANGED <<prompting, flow, task, conn>>
           \/ /\ flow[e][Signal] = "none" /\ flow'[e][Signal] = "status"
              /\ Advances(e, Signal, FALSE)
              /\ prompting'[e]
    BY <1>0, <1>4, NeededFacts
  <2>2. UNCHANGED reg /\ ~SetsIn(flow[e], Head(inbox[e]))
    BY <2>1 DEF agentVars, SetsIn
  <2>3. CASE (prompting[e] \/ unlocked[e]) /\ UNCHANGED <<prompting, flow, task, conn>>
    <3>1. Pops(e)
      BY <2>1, <2>2, <2>3 DEF Pops
    <3>2. conn'[e] = "ready" => Seeded(e)
      BY <2>3 DEF Seeded
    <3> QED BY <2>2, <2>3, <3>1, <3>2 DEF Endures
  <2>4. CASE /\ flow[e][Signal] = "none" /\ flow'[e][Signal] = "status"
             /\ Advances(e, Signal, FALSE) /\ prompting'[e]
    <3>1. PICK ok \in BOOLEAN : Advances(e, Signal, ok)
      BY <2>4, Zenon
    <3>2. flow'[e][Signal] \notin Asking /\ flow[e][Signal] \notin Waiting
      BY <2>4 DEF Asking, Waiting
    <3>3. /\ \A d \in Editors, g \in Flows :
                 d # e \/ g # Signal => flow'[d][g] = flow[d][g]
          /\ task[e]["cancel"] # Idle => task'[e]["cancel"] # Idle
          /\ \A d \in Editors :
                 \/ conn'[d] = conn[d]
                 \/ d = e /\ conn[d] = "down" /\ conn'[d] = "dialing"
      BY <1>0, <1>i, <3>1, <3>2, AdvanceFacts
    <3>4. \A i \in 1..Len(inbox[e]) : ~Replies(inbox[e][i], Signal)
      BY <1>0, <1>i, <2>1, <3>2 DEF Flights, Flight, Answered
    <3>5. ASSUME NEW i \in 1..Len(inbox[e])
          PROVE  SetsIn(flow'[e], inbox[e][i]) <=> SetsIn(flow[e], inbox[e][i])
      BY <3>3, <3>4, SetsKept
    <3>6. \A i \in 2..Len(inbox[e]) : i \in 1..Len(inbox[e])
      BY <1>i
    <3>7. Pops(e)
      BY <2>1, <2>2, <3>5, <3>6 DEF Pops
    <3>8. conn'[e] = "ready" => Seeded(e)
      BY <3>3 DEF Seeded
    <3> QED BY <2>2, <2>4, <3>3, <3>7, <3>8 DEF Endures
  <2> QED BY <2>1, <2>3, <2>4
<1>5. ASSUME LockCall(e) \/ ExitLocks(e) PROVE Endures(e)
  <2>1. /\ UNCHANGED <<unlocked, prompting, flow, inbox, agentVars>>
        /\ \E s \in {"lock", "exit"} :
               /\ s = "lock" => task[e][s] = Idle
               /\ s = "exit" => ed'[e] = "leaving"
               /\ task'[e][s].pc \in {"waiter", "lost", "run"}
               /\ task'[e][s].pc = "run" => e \in reg
               /\ \A d \in Editors, z \in Slots :
                      d # e \/ z # s => task'[d][z] = task[d][z]
        /\ \A d \in Editors :
               \/ conn'[d] = conn[d]
               \/ d = e /\ conn[d] = "down" /\ conn'[d] = "dialing"
    BY <1>0, <1>5, CallFacts
  <2>2. UNCHANGED reg /\ task'[e]["cancel"] = task[e]["cancel"]
    BY <1>i, <2>1 DEF agentVars
  <2>3. Stays(e) /\ ~Pops(e)
    BY <1>1, <2>1 DEF Stays, Pops
  <2>4. conn'[e] = "ready" => Seeded(e)
    BY <2>1 DEF Seeded
  <2> QED BY <2>1, <2>2, <2>3, <2>4 DEF Endures
<1>6. ASSUME OnState(e) PROVE Endures(e)
  <2>1. /\ inbox[e] # <<>> /\ Pop(e) /\ Head(inbox[e]).kind = "state"
        /\ unlocked' = [unlocked EXCEPT ![e] = ~Head(inbox[e]).locked]
        /\ UNCHANGED <<prompting, flow, conn, task, reg>>
    BY <1>6 DEF OnState, Takes, agentVars
  <2>2. unlocked'[e] = ~Head(inbox[e]).locked
    BY <1>i, <2>1
  <2>3. SetsIn(flow[e], Head(inbox[e])) /\ Head(inbox[e]) # Needed
    BY <1>i, <2>1 DEF SetsIn
  <2>4. Pops(e)
    BY <2>1, <2>2, <2>3 DEF Pops
  <2>5. conn'[e] = "ready" => Seeded(e)
    BY <2>1 DEF Seeded
  <2> QED BY <2>1, <2>3, <2>4, <2>5 DEF Endures
<1>7. ASSUME OnHello(e) PROVE Endures(e)
  <2>1. /\ inbox[e] # <<>> /\ Pop(e) /\ Replies(Head(inbox[e]), "hello")
        /\ unlocked' = [unlocked EXCEPT ![e] = ~Head(inbox[e]).locked]
        /\ UNCHANGED <<prompting, flow, agentVars>>
        /\ \A s \in Slots :
               \/ task'[e][s] = task[e][s]
               \/ /\ task[e][s].pc = "waiter" /\ task'[e][s].op = task[e][s].op
                  /\ \/ task'[e][s].pc = "run" /\ e \in reg
                     \/ task'[e][s].pc = "lost"
    BY <1>0, <1>7, HelloFacts
  <2>2. unlocked'[e] = ~Head(inbox[e]).locked /\ UNCHANGED reg
    BY <1>i, <2>1 DEF agentVars
  <2>3. SetsIn(flow[e], Head(inbox[e])) /\ Head(inbox[e]) # Needed
    BY <1>i, <2>1 DEF SetsIn, Replies
  <2>4. Pops(e)
    BY <2>1, <2>2, <2>3 DEF Pops
  <2>5. Seeded(e)
    BY <1>1, <2>1 DEF Seeded, Answered
  <2>6. task[e]["cancel"] # Idle => task'[e]["cancel"] # Idle
    BY <1>i, <2>1
  <2> QED BY <2>1, <2>2, <2>3, <2>4, <2>5, <2>6 DEF Endures
<1>8. ASSUME Quits(e) PROVE FALSE
  <2>1. reg' = reg \ {e}
    BY <1>8 DEF Quits, Leaves
  <2> QED BY <2>1
<1>9. ASSUME Loses(e) PROVE FALSE
  BY <1>0, <1>9, LoseFacts DEF agentVars
<1>10. ASSUME Setup(e) PROVE FALSE
  BY <1>0, <1>10 DEF Setup, agentVars, TypeOK, EditorTypes
<1> QED BY <1>2, <1>3, <1>4, <1>5, <1>6, <1>7, <1>8, <1>9, <1>10 DEF EditorStep

\* While its messages stay, the cache they lead to stays.
LEMMA StayShows ==
    ASSUME TypeOK, NEW e \in Editors, Stays(e), NEW n \in 0..Len(inbox[e]), NEW v,
           ShowsIn(flow[e], unlocked[e], inbox[e], n, v)
    PROVE  ShowsIn(flow'[e], unlocked'[e], inbox'[e], n, v)
<1>1. Len(inbox[e]) \in Nat
  BY DEF TypeOK
<1>2. n \in Nat /\ \A i \in 1..n : i \in 1..Len(inbox[e])
  BY <1>1
<1>3. /\ inbox'[e] = inbox[e] /\ unlocked'[e] = unlocked[e]
      /\ \A i \in 1..n : SetsIn(flow'[e], inbox[e][i]) <=> SetsIn(flow[e], inbox[e][i])
  BY <1>2 DEF Stays
<1>4. ShowsIn(flow'[e], unlocked[e], inbox[e], n, v)
  BY <1>2, <1>3, ShowsSame
<1> QED BY <1>3, <1>4

\* When it handles the first, the cache the rest leads to stays.
LEMMA PopShows ==
    ASSUME TypeOK, NEW e \in Editors, Pops(e), NEW n \in Nat, n + 1 \in 1..Len(inbox[e]),
           NEW v \in BOOLEAN, ShowsIn(flow[e], unlocked[e], inbox[e], n + 1, v)
    PROVE  ShowsIn(flow'[e], unlocked'[e], inbox'[e], n, v)
<1> DEFINE fl == flow[e]
           fl2 == flow'[e]
           u == unlocked[e]
           u2 == unlocked'[e]
           box == inbox[e]
           box2 == inbox'[e]
<1>1. /\ Len(box) \in Nat /\ Len(box2) = Len(box) - 1
      /\ Head(box) = box[1]
      /\ \A i \in 1..Len(box2) : box2[i] = box[i + 1]
  BY PopFacts DEF Pops
<1>2. /\ \A i \in 1..n : i \in 1..Len(box2)
      /\ \A i \in 2..(n + 1) : i \in 2..Len(box)
  BY <1>1
<1>3. /\ \A i \in 1..n : box2[i] = box[i + 1]
      /\ \A i \in 2..(n + 1) : SetsIn(fl2, box[i]) <=> SetsIn(fl, box[i])
      /\ SetsIn(fl, box[1]) => u2 = ~box[1].locked
      /\ ~SetsIn(fl, box[1]) => u2 = u
  BY <1>1, <1>2 DEF Pops
<1>4. ShowsIn(fl, u, box, n + 1, v)
  OBVIOUS
<1> HIDE DEF fl, fl2, u, u2, box, box2
<1>5. ShowsIn(fl2, u2, box2, n, v)
  BY <1>3, <1>4, ShowsPopped
<1> QED BY <1>5 DEF fl2, u2, box2

-----------------------------------------------------------------------------
(* Every step keeps the cache on the agent's state.                        *)

\* Every step keeps the cache of the connected editors on the session.
LEMMA CachedStep ==
    ASSUME IInv, [Next]_vars
    PROVE  Cached'
<1>0. /\ TypeOK /\ TypeOK' /\ PromptingAlive /\ Handled /\ Flights /\ Callers
      /\ Truthful /\ Cached
  BY BasicsStep DEF IInv
<1>i. /\ locked \in BOOLEAN /\ locked' \in BOOLEAN /\ reg \subseteq Editors
      /\ reg' \subseteq Editors
      /\ inbox \in [Editors -> Seq(Messages)]
      /\ \A d \in Editors : Len(inbox[d]) \in Nat /\ Len(inbox'[d]) \in Nat
      /\ \A g \in Flows : g \in Slots /\ g # "hello"
      /\ Idle.pc = "none"
  BY <1>0, IdleFacts DEF TypeOK, AgentTypes
<1> SUFFICES ASSUME ~raced', ~Announcing', NEW d \in reg',
                    conn'[d] = "ready" \/ \E i \in 1..Len(inbox'[d]) :
                                              Replies(inbox'[d][i], "hello")
             PROVE  ShowsIn(flow'[d], unlocked'[d], inbox'[d], Len(inbox'[d]), ~locked')
  BY DEF Cached, Seeded, Answered, Replies, Shows, ShowsIn, Sets, SetsIn
<1>d. d \in Editors
  BY <1>i
<1>1. ASSUME ~raced, ~Announcing, d \in reg, Seeded(d)
      PROVE  ShowsIn(flow[d], unlocked[d], inbox[d], Len(inbox[d]), ~locked)
  BY <1>0, <1>1, ShowsHere DEF Cached
<1>2. ASSUME NEW e \in Editors, EditorStep(e)
      PROVE  ShowsIn(flow'[d], unlocked'[d], inbox'[d], Len(inbox'[d]), ~locked')
  <2>1. ~raced /\ ~Announcing /\ locked' = locked
    BY <1>2, EditorAside, AsideAnnouncing
  <2>2. CASE d # e
    <3>1. Untouched(d)
      BY <1>d, <1>2, <2>2, EditorLocal
    <3>2. d \in reg /\ Seeded(d)
      BY <3>1 DEF Untouched, Seeded, Answered
    <3> QED BY <1>1, <2>1, <3>1, <3>2 DEF Untouched
  <2>3. CASE d = e
    <3>1. CASE Connect(e)
      <4>1. conn'[d] = "up" /\ inbox'[d] = <<>>
        BY <1>0, <2>3, <3>1, ConnectFacts
      <4> QED BY <4>1
    <3>2. CASE Endures(e)
      <4>1. d \in reg /\ (conn'[d] = "ready" => Seeded(d)) /\ (Stays(d) \/ Pops(d))
        BY <2>3, <3>2 DEF Endures
      <4>2. Seeded(d)
        <5>1. inbox'[d] = inbox[d] => Seeded(d)
          BY <4>1 DEF Seeded, Answered
        <5>2. CASE Pops(d)
          <6>1. /\ Len(inbox'[d]) = Len(inbox[d]) - 1
                /\ \A i \in 1..Len(inbox'[d]) : inbox'[d][i] = inbox[d][i + 1]
            BY <1>0, <1>d, <5>2, PopFacts DEF Pops
          <6>2. \A i \in 1..Len(inbox'[d]) : i + 1 \in 1..Len(inbox[d])
            BY <1>i, <1>d, <6>1
          <6> QED BY <4>1, <6>1, <6>2 DEF Seeded, Answered
        <5> QED BY <4>1, <5>1, <5>2 DEF Stays
      <4>3. ShowsIn(flow[d], unlocked[d], inbox[d], Len(inbox[d]), ~locked)
        BY <1>1, <2>1, <4>1, <4>2
      <4>4. CASE Stays(d)
        <5>1. Len(inbox[d]) \in 0..Len(inbox[d]) /\ inbox'[d] = inbox[d]
          BY <1>i, <1>d, <4>4 DEF Stays
        <5> QED BY <1>0, <1>d, <2>1, <4>3, <4>4, <5>1, StayShows
      <4>5. CASE Pops(d)
        <5>0. Len(inbox[d]) \in Nat /\ Len(inbox'[d]) = Len(inbox[d]) - 1
          BY <1>0, <1>d, <4>5, PopFacts DEF Pops
        <5>1. PICK n \in Nat : n = Len(inbox'[d])
          BY <1>i, <1>d
        <5>v. PICK v \in BOOLEAN : v = ~locked
          BY <1>i
        <5>n. Len(inbox[d]) = n + 1 /\ n + 1 \in 1..Len(inbox[d])
          BY <5>0, <5>1
        <5>2. ShowsIn(flow[d], unlocked[d], inbox[d], n + 1, v)
          BY <4>3, <5>n, <5>v
        <5>3. ShowsIn(flow'[d], unlocked'[d], inbox'[d], n, v)
          BY <1>0, <1>d, <4>5, <5>n, <5>2, PopShows
        <5> QED BY <2>1, <5>1, <5>v, <5>3
      <4> QED BY <4>1, <4>4, <4>5
    <3> QED BY <1>2, <2>3, <3>1, <3>2, EditorSelf
  <2> QED BY <2>2, <2>3
<1>3. ASSUME UNCHANGED <<ed, conn, flow, unlocked, inbox, reg>>, ~raced, ~Announcing,
             locked' = locked
      PROVE  ShowsIn(flow'[d], unlocked'[d], inbox'[d], Len(inbox'[d]), ~locked')
  <2>1. d \in reg /\ Seeded(d)
    BY <1>3 DEF Seeded, Answered
  <2> QED BY <1>1, <1>3, <2>1
<1>4. ASSUME UNCHANGED <<flow, unlocked>>, d \in reg,
             Len(inbox'[d]) = Len(inbox[d]) + 1,
             \A i \in 1..Len(inbox[d]) : inbox'[d][i] = inbox[d][i]
      PROVE  LET m == inbox'[d][Len(inbox[d]) + 1] IN
             /\ SetsIn(flow[d], m) /\ m.locked = locked' =>
                    ShowsIn(flow'[d], unlocked'[d], inbox'[d], Len(inbox'[d]), ~locked')
             /\ /\ ~SetsIn(flow[d], m) /\ locked' = locked
                /\ ShowsIn(flow[d], unlocked[d], inbox[d], Len(inbox[d]), ~locked)
                => ShowsIn(flow'[d], unlocked'[d], inbox'[d], Len(inbox'[d]), ~locked')
  <2>1. PICK n \in Nat : n = Len(inbox[d])
    BY <1>i, <1>d
  <2>2. PICK v \in BOOLEAN : v = ~locked' /\ locked' = ~v
    BY <1>i
  <2>3. /\ \A i \in 1..n : inbox'[d][i] = inbox[d][i]
        /\ Len(inbox'[d]) = n + 1 /\ flow'[d] = flow[d] /\ unlocked'[d] = unlocked[d]
    BY <1>4, <2>1
  <2>4. ASSUME SetsIn(flow[d], inbox'[d][n + 1]), inbox'[d][n + 1].locked = ~v
        PROVE  ShowsIn(flow[d], unlocked[d], inbox'[d], n + 1, v)
    BY <2>4, ShowsLast
  <2>5. ASSUME ~SetsIn(flow[d], inbox'[d][n + 1]),
               ShowsIn(flow[d], unlocked[d], inbox[d], n, v)
        PROVE  ShowsIn(flow[d], unlocked[d], inbox'[d], n + 1, v)
    <3>1. ShowsIn(flow[d], unlocked[d], inbox'[d], n, v)
      BY <2>3, <2>5, ShowsSame
    <3> QED BY <2>5, <3>1, ShowsLast
  <2> QED BY <2>1, <2>2, <2>3, <2>4, <2>5
<1>5. ASSUME NEW l \in BOOLEAN, Broadcast(State(l)), UNCHANGED <<flow, unlocked, reg>>,
             l = locked'
      PROVE  ShowsIn(flow'[d], unlocked'[d], inbox'[d], Len(inbox'[d]), ~locked')
  <2>1. State(l) \in Messages /\ State(l).kind = "state" /\ State(l).locked = l
    BY MessageFacts
  <2>2. /\ Len(inbox'[d]) = Len(inbox[d]) + 1
        /\ \A i \in 1..Len(inbox[d]) : inbox'[d][i] = inbox[d][i]
        /\ inbox'[d][Len(inbox[d]) + 1] = State(l)
    BY <1>0, <1>5, <2>1, BroadcastFacts
  <2>3. SetsIn(flow[d], State(l))
    BY <2>1 DEF SetsIn
  <2> QED BY <1>4, <1>5, <2>1, <2>2, <2>3
<1>6. ASSUME NEW e \in Editors, NEW s \in Slots, Serve(e, s)
      PROVE  ShowsIn(flow'[d], unlocked'[d], inbox'[d], Len(inbox'[d]), ~locked')
  <2>1. CASE RunStatus(e, s) \/ RunInstall(e, s) \/ RunFails(e, s) \/ RunLock(e, s)
    <3>1. /\ UNCHANGED <<editorVars, inbox>> /\ task[e][s].pc = "run"
          /\ Looked(e, s) \/ Changed(e, s) \/ Left(e, s)
          /\ \A c \in Editors, z \in Slots :
                 c # e \/ z # s => task'[c][z] = task[c][z]
      BY <1>0, <2>1, RunFacts
    <3>2. ~Changed(e, s)
      BY DEF Changed, Announcing
    <3>3. locked' = locked /\ (raced => raced') /\ UNCHANGED <<reg, timer>>
      <4>1. CASE UNCHANGED agentVars
        BY <4>1 DEF agentVars
      <4>2. CASE /\ locked /\ UNCHANGED <<reg, exists, timer, deaths>>
                 /\ \E l \in BOOLEAN : l /\ SetLocked(l)
        BY <1>0, <1>i, <4>2, SetLockedFacts
      <4> QED BY <3>1, <3>2, <4>1, <4>2 DEF Looked, Left
    <3>4. ~Announcing
      BY <3>1, <3>3 DEF Announcing
    <3> QED BY <1>3, <3>1, <3>3, <3>4 DEF editorVars
  <2>2. CASE RunCancel(e, s)
    <3>1. /\ UNCHANGED <<editorVars, inbox, reg, locked, timer, raced>>
          /\ task[e][s].pc = "run"
          /\ \A c \in Editors, z \in Slots :
                 c # e \/ z # s => task'[c][z] = task[c][z]
      BY <1>0, <2>2, CancelFacts
    <3>2. ~Announcing
      BY <3>1 DEF Announcing
    <3> QED BY <1>3, <3>1, <3>2 DEF editorVars
  <2>3. CASE Announce(e, s)
    <3>1. /\ UNCHANGED <<editorVars, agentVars>> /\ task[e][s].pc = "announce"
          /\ \E l \in BOOLEAN : Broadcast(State(l)) /\ (l <=> task[e][s].op = "lock")
      BY <1>0, <2>3, AnnounceFacts
    <3>2. UNCHANGED <<flow, unlocked, reg, locked, raced>>
      BY <3>1 DEF editorVars, agentVars
    <3>3. PICK l \in BOOLEAN : Broadcast(State(l)) /\ (l <=> task[e][s].op = "lock")
      BY <3>1
    <3>4. task[e][s].op = "lock" <=> locked
      BY <1>0, <3>1, <3>2 DEF Truthful
    <3>5. l = locked'
      BY <1>i, <3>2, <3>3, <3>4
    <3> QED BY <1>5, <3>2, <3>3, <3>5
  <2>4. CASE Reply(e, s)
    <3>1. /\ UNCHANGED <<editorVars, agentVars>>
          /\ task[e][s].pc = "reply" /\ task'[e][s] = Idle
          /\ Replies(task[e][s].answer, s)
          /\ \A c \in Editors : c # e => inbox'[c] = inbox[c]
          /\ \/ inbox'[e] = inbox[e] /\ (e \notin reg \/ s = "lock")
             \/ /\ e \in reg /\ Len(inbox[e]) \in Nat
                /\ Len(inbox'[e]) = Len(inbox[e]) + 1
                /\ \A i \in 1..Len(inbox[e]) : inbox'[e][i] = inbox[e][i]
                /\ inbox'[e][Len(inbox[e]) + 1] = task[e][s].answer
          /\ \A c \in Editors, z \in Slots :
                 c # e \/ z # s => task'[c][z] = task[c][z]
      BY <1>0, <2>4, ReplyFacts
    <3>2. UNCHANGED <<ed, conn, flow, unlocked, reg, locked, timer, raced>>
      BY <3>1 DEF editorVars, agentVars
    <3>3. ~Announcing /\ ~raced
      BY <3>1, <3>2 DEF Announcing
    <3>4. CASE inbox'[d] = inbox[d]
      <4>1. d \in reg /\ Seeded(d)
        BY <3>2, <3>4 DEF Seeded, Answered
      <4> QED BY <1>1, <3>2, <3>3, <3>4, <4>1
    <3>5. CASE inbox'[d] # inbox[d]
      <4>1. d = e /\ d \in reg
        BY <1>d, <3>1, <3>5
      <4>2. /\ Len(inbox'[d]) = Len(inbox[d]) + 1
            /\ \A i \in 1..Len(inbox[d]) : inbox'[d][i] = inbox[d][i]
            /\ inbox'[d][Len(inbox[d]) + 1] = task[e][s].answer
        BY <3>1, <3>5, <4>1
      <4>3. CASE SetsIn(flow[d], task[e][s].answer)
        <5>1. s = "hello" \/ (s \in Flows /\ flow[e][s] = "ensure")
          BY <3>1, <4>1, <4>3 DEF SetsIn, Replies
        <5>2. task[e][s].op = "status"
          <6>1. CASE s = "hello"
            <7>1. task[e][s].op \in {"none", "status"} /\ task[e][s] \in Tasks
              BY <1>0, <6>1 DEF Callers, Caller, TypeOK
            <7>2. task[e][s].op # "none"
              BY <1>0, <3>1 DEF Handled, Holds
            <7> QED BY <7>1, <7>2
          <6>2. CASE s \in Flows /\ flow[e][s] = "ensure"
            <7>1. ed[e] # "gone"
              BY <1>0, <4>1 DEF TypeOK, EditorTypes
            <7> QED BY <1>0, <3>1, <6>2, <7>1 DEF Flights, Flight, Looks
          <6> QED BY <5>1, <6>1, <6>2
        <5>3. task[e][s].answer.locked = locked'
          BY <1>0, <3>1, <3>2, <3>3, <5>2 DEF Truthful
        <5> QED BY <1>4, <3>2, <4>1, <4>2, <4>3, <5>3
      <4>4. CASE ~SetsIn(flow[d], task[e][s].answer)
        <5>1. ~Replies(task[e][s].answer, "hello")
          BY <4>4 DEF SetsIn, Replies
        <5>2. \A i \in 1..Len(inbox'[d]) : i \in 1..Len(inbox[d]) \/ i = Len(inbox[d]) + 1
          BY <1>i, <1>d, <4>2
        <5>3. Seeded(d)
          BY <3>2, <4>2, <5>1, <5>2 DEF Seeded, Answered
        <5>4. ShowsIn(flow[d], unlocked[d], inbox[d], Len(inbox[d]), ~locked)
          BY <1>1, <3>3, <4>1, <5>3
        <5> QED BY <1>4, <3>2, <4>1, <4>2, <4>4, <5>4
      <4> QED BY <4>3, <4>4
    <3> QED BY <3>4, <3>5
  <2> QED BY <1>6, <2>1, <2>2, <2>3, <2>4 DEF Serve
<1>7. CASE AutoAnnounce
  <2>1. /\ UNCHANGED <<editorVars, task, reg, locked, raced>> /\ timer = "announce"
    BY <1>7 DEF AutoAnnounce
  <2>2. PICK l \in BOOLEAN : l /\ Broadcast(State(l))
    BY <1>7, Zenon DEF AutoAnnounce
  <2>3. l = locked' /\ UNCHANGED <<flow, unlocked>>
    BY <1>0, <1>i, <2>1, <2>2 DEF Truthful, editorVars
  <2> QED BY <1>5, <2>1, <2>2, <2>3
<1>8. CASE ReadSignals
  <2>1. /\ UNCHANGED <<editorVars, task, reg, locked, timer, raced>> /\ Broadcast(Needed)
    BY <1>8 DEF ReadSignals
  <2>2. /\ ~raced /\ ~Announcing /\ d \in reg
        /\ UNCHANGED <<conn, flow, unlocked, reg>> /\ locked' = locked
    BY <2>1 DEF Announcing, editorVars
  <2>3. /\ Len(inbox'[d]) = Len(inbox[d]) + 1
        /\ \A i \in 1..Len(inbox[d]) : inbox'[d][i] = inbox[d][i]
        /\ inbox'[d][Len(inbox[d]) + 1] = Needed
    BY <1>0, <2>1, <2>2, MessageFacts, BroadcastFacts
  <2>4. ~SetsIn(flow[d], Needed) /\ ~Replies(Needed, "hello")
    BY MessageFacts DEF SetsIn, Replies
  <2>5. \A i \in 1..Len(inbox'[d]) : i \in 1..Len(inbox[d]) \/ i = Len(inbox[d]) + 1
    BY <1>i, <1>d, <2>3
  <2>6. Seeded(d)
    BY <2>2, <2>3, <2>4, <2>5 DEF Seeded, Answered
  <2>7. ShowsIn(flow[d], unlocked[d], inbox[d], Len(inbox[d]), ~locked)
    BY <1>1, <2>2, <2>6
  <2> QED BY <1>4, <2>2, <2>3, <2>4, <2>7
<1>9. CASE Read \/ ReadParks \/ ReadGivesUp \/ UNCHANGED vars
  <2>1. UNCHANGED <<ed, conn, flow, unlocked, inbox, reg, locked, timer, task, raced>>
    BY <1>9 DEF Read, ReadParks, ReadGivesUp, vars, editorVars
  <2>2. ~Announcing /\ ~raced
    BY <2>1 DEF Announcing
  <2> QED BY <1>3, <2>1, <2>2
<1>10. ~AutoLock
  BY DEF AutoLock, Announcing
<1>11. ~AgentDies
  BY DEF AgentDies
<1> QED BY <1>2, <1>6, <1>7, <1>8, <1>9, <1>10, <1>11, StepKinds DEF EditorStep

-----------------------------------------------------------------------------
(* Every step keeps who listens.                                           *)

\* Every step keeps those who heard the signal connected or gone, and
\* the vault of a parked reader locked.
LEMMA ListeningStep ==
    ASSUME IInv, [Next]_vars
    PROVE  Listening'
<1>0. TypeOK /\ PromptingAlive /\ Handled /\ Listening
  BY DEF IInv
<1>i. /\ reg \subseteq Editors /\ heard \subseteq Editors /\ locked \in BOOLEAN
      /\ ed \in [Editors -> {"off", "up", "leaving", "gone"}]
  BY <1>0 DEF TypeOK, AgentTypes, EditorTypes
<1>1. ASSUME heard' \subseteq heard, reader' = "parked" => locked',
             \A d \in Editors : /\ d \in reg => d \in reg' \/ ed'[d] = "gone"
                                /\ ed[d] = "gone" => ed'[d] = "gone"
      PROVE  Listening'
  BY <1>0, <1>i, <1>1 DEF Listening
<1>2. ASSUME NEW e \in Editors, EditorStep(e) PROVE Listening'
  <2>1. UNCHANGED <<locked, reader, heard>>
    BY <1>2, EditorAside
  <2>2. \A d \in Editors : /\ d \in reg => d \in reg' \/ ed'[d] = "gone"
                           /\ ed[d] = "gone" => ed'[d] = "gone"
    <3>1. CASE (\E f \in Flows : Chooses(e, f)) \/ LockCall(e)
      BY <3>1 DEF Chooses, LockCall, agentVars
    <3>2. CASE \/ \E f \in Flows, ok \in BOOLEAN : Handles(e, f, ok)
               \/ OnState(e) \/ OnNeeded(e) \/ OnHello(e)
      BY <3>2 DEF Handles, OnState, OnNeeded, OnHello, agentVars
    <3>3. CASE Quits(e)
      BY <1>i, <3>3 DEF Quits, Leaves
    <3>4. CASE Loses(e)
      BY <1>0, <3>4, LoseFacts DEF agentVars
    <3>5. CASE Setup(e) \/ ExitLocks(e)
      BY <1>i, <3>5 DEF Setup, ExitLocks, agentVars
    <3>6. CASE Connect(e)
      BY <1>0, <3>6, ConnectFacts
    <3> QED BY <1>2, <3>1, <3>2, <3>3, <3>4, <3>5, <3>6 DEF EditorStep
  <2> QED BY <1>0, <1>1, <2>1, <2>2 DEF Listening
<1>3. ASSUME NEW l \in BOOLEAN, SetLocked(l), UNCHANGED <<ed, reg>> PROVE Listening'
  <2>1. /\ locked' = l /\ reader' \in {reader, "idle"} /\ heard' \subseteq heard
        /\ reader = "parked" /\ ~l => reader' = "idle"
    BY <1>0, <1>3, SetLockedFacts
  <2> QED BY <1>1, <1>3, <2>1
<1>4. ASSUME UNCHANGED <<ed, reg, locked, heard, reader>> PROVE Listening'
  BY <1>0, <1>1, <1>4 DEF Listening
<1>5. ASSUME NEW e \in Editors, NEW s \in Slots, Serve(e, s) PROVE Listening'
  <2>1. CASE RunStatus(e, s) \/ RunInstall(e, s) \/ RunFails(e, s) \/ RunLock(e, s)
    <3>1. /\ UNCHANGED <<editorVars, inbox>>
          /\ Looked(e, s) \/ Changed(e, s) \/ Left(e, s)
      BY <1>0, <2>1, RunFacts
    <3>2. CASE UNCHANGED agentVars
      BY <1>4, <3>1, <3>2 DEF agentVars, readVars, editorVars
    <3>3. CASE (\E l \in BOOLEAN : SetLocked(l)) /\ UNCHANGED reg
      BY <1>3, <3>1, <3>3 DEF editorVars
    <3> QED BY <3>1, <3>2, <3>3 DEF Looked, Changed, Left
  <2>2. CASE RunCancel(e, s)
    <3>1. /\ UNCHANGED <<editorVars, reg, locked>>
          /\ reader' \in {reader, "idle"} /\ heard' \subseteq heard
      BY <1>0, <2>2, CancelFacts
    <3> QED BY <1>0, <1>1, <3>1 DEF Listening, editorVars
  <2>3. CASE Announce(e, s) \/ Reply(e, s)
    BY <1>4, <2>3 DEF Announce, Reply, editorVars, agentVars, readVars
  <2> QED BY <1>5, <2>1, <2>2, <2>3 DEF Serve
<1>6. CASE AutoLock
  <2>1. \E l \in BOOLEAN : SetLocked(l)
    BY <1>6, Zenon DEF AutoLock
  <2> QED BY <1>3, <1>6, <2>1 DEF AutoLock, editorVars
<1>7. CASE AutoAnnounce \/ UNCHANGED vars
  BY <1>4, <1>7 DEF AutoAnnounce, vars, editorVars, readVars
<1>8. CASE Read
  BY <1>1, <1>8 DEF Read, editorVars
<1>9. CASE ReadSignals
  <2>1. heard' \subseteq reg' /\ reader' = "capture"
    BY <1>9 DEF ReadSignals
  <2> QED BY <2>1 DEF Listening
<1>10. CASE ReadParks \/ ReadGivesUp
  BY <1>1, <1>10 DEF ReadParks, ReadGivesUp, Released, editorVars
<1>11. CASE AgentDies
  <2>1. heard' = {} /\ reader' = "idle"
    BY <1>11 DEF AgentDies, Released
  <2> QED BY <2>1 DEF Listening
<1> QED BY <1>2, <1>5, <1>6, <1>7, <1>8, <1>9, <1>10, <1>11, StepKinds DEF EditorStep

-----------------------------------------------------------------------------
(* What an editor still has to do, as a function of its messages.          *)

Success == Done(Signal, TRUE)

Expects(p, fl, u, box) ==
    \E k \in 0..Len(box), v \in BOOLEAN :
        /\ ~v
        /\ k = 0 => p
        /\ k # 0 => box[k] = Needed /\ ShowsIn(fl, u, box, k - 1, v)
        /\ \A j \in (k + 1)..Len(box) : box[j] # Success

\* The answer that ends the prompt is like no other message.
LEMMA SuccessFacts ==
    /\ Success.ok /\ Replies(Success, Signal) /\ Success \in Outcomes(Signal)
    /\ \A ok \in BOOLEAN : Done(Signal, ok) = Success => ok
    /\ Success # Needed /\ \A l \in BOOLEAN : State(l) # Success
<1>1. PICK ok \in BOOLEAN : ok /\ Success = Done(Signal, ok)
  BY Zenon DEF Success
<1>2. Signal \in Slots
  BY PromptAssumption DEF Slots
<1>3. Success.ok /\ Replies(Success, Signal)
  BY <1>1, <1>2, MessageFacts
<1>4. Success \in Outcomes(Signal)
  BY Zenon DEF Success, Outcomes
<1>5. \A c \in BOOLEAN : Done(Signal, c) = Success => c
  BY <1>2, <1>3, MessageFacts
<1>6. Success # Needed /\ \A l \in BOOLEAN : State(l) # Success
  BY <1>3, MessageFacts DEF Replies
<1> QED BY <1>3, <1>4, <1>5, <1>6

\* A further message that is no success leaves an editor expecting.
LEMMA ExpectsMore ==
    ASSUME NEW p, NEW fl, NEW u, NEW box, NEW box2, Len(box) \in Nat,
           Len(box2) = Len(box) + 1,
           \A i \in 1..Len(box) : box2[i] = box[i],
           box2[Len(box) + 1] # Success, Expects(p, fl, u, box)
    PROVE  Expects(p, fl, u, box2)
<1>1. PICK k \in 0..Len(box), v \in BOOLEAN :
          /\ ~v
          /\ k = 0 => p
          /\ k # 0 => box[k] = Needed /\ ShowsIn(fl, u, box, k - 1, v)
          /\ \A j \in (k + 1)..Len(box) : box[j] # Success
  BY DEF Expects
<1>2. \A j \in (k + 1)..Len(box2) : box2[j] # Success
  <2> TAKE j \in (k + 1)..Len(box2)
  <2>1. CASE j = Len(box) + 1
    BY <2>1
  <2>2. CASE j # Len(box) + 1
    <3>1. j \in (k + 1)..Len(box) /\ j \in 1..Len(box)
      BY <2>2
    <3> QED BY <1>1, <3>1
  <2> QED BY <2>1, <2>2
<1>3. ASSUME k # 0 PROVE box2[k] = Needed /\ ShowsIn(fl, u, box2, k - 1, v)
  <2>1. PICK n \in Nat : n = k - 1 /\ k \in 1..Len(box)
    BY <1>3
  <2>2. \A i \in 1..n : i \in 1..Len(box)
    BY <2>1
  <2>3. ShowsIn(fl, u, box, n, v)
    BY <1>1, <1>3, <2>1
  <2>4. ShowsIn(fl, u, box2, n, v)
    BY <2>2, <2>3, ShowsSame
  <2> QED BY <1>1, <1>3, <2>1, <2>4
<1>4. k \in 0..Len(box2)
  OBVIOUS
<1> QED BY <1>1, <1>2, <1>3, <1>4 DEF Expects

\* An editor that handles a message goes on expecting, or cancels.
LEMMA ExpectsOn ==
    ASSUME IInv, TypeOK', NEW e \in Editors, Endures(e),
           Expects(prompting[e], flow[e], unlocked[e], inbox[e])
    PROVE  \/ task'[e]["cancel"] # Idle
           \/ Expects(prompting'[e], flow'[e], unlocked'[e], inbox'[e])
<1>0. TypeOK
  BY DEF IInv
<1>i. Len(inbox[e]) \in Nat /\ Len(inbox'[e]) \in Nat /\ unlocked[e] \in BOOLEAN
  BY <1>0 DEF TypeOK, EditorTypes
<1>1. PICK k \in 0..Len(inbox[e]), v \in BOOLEAN :
          /\ ~v
          /\ k = 0 => prompting[e]
          /\ k # 0 => /\ inbox[e][k] = Needed
                      /\ ShowsIn(flow[e], unlocked[e], inbox[e], k - 1, v)
          /\ \A j \in (k + 1)..Len(inbox[e]) : inbox[e][j] # Success
  BY DEF Expects
<1> SUFFICES ASSUME task'[e]["cancel"] = Idle
             PROVE  Expects(prompting'[e], flow'[e], unlocked'[e], inbox'[e])
  OBVIOUS
<1>2. CASE Stays(e)
  <2>1. inbox'[e] = inbox[e] /\ ~Pops(e)
    <3>1. Pops(e) => Len(inbox'[e]) = Len(inbox[e]) - 1
      BY <1>0, PopFacts DEF Pops
    <3> QED BY <1>i, <1>2, <3>1 DEF Stays
  <2>2. k = 0 => prompting'[e]
    BY <1>1, <2>1 DEF Endures
  <2>3. k # 0 => ShowsIn(flow'[e], unlocked'[e], inbox'[e], k - 1, v)
    <3>1. k # 0 => k - 1 \in 0..Len(inbox[e])
      BY <1>i
    <3> QED BY <1>0, <1>1, <1>2, <3>1, StayShows
  <2>4. \E n \in 0..Len(inbox'[e]), w \in BOOLEAN :
            /\ ~w
            /\ n = 0 => prompting'[e]
            /\ n # 0 => /\ inbox'[e][n] = Needed
                        /\ ShowsIn(flow'[e], unlocked'[e], inbox'[e], n - 1, w)
            /\ \A j \in (n + 1)..Len(inbox'[e]) : inbox'[e][j] # Success
    BY <1>1, <2>1, <2>2, <2>3
  <2> QED BY <2>4 DEF Expects
<1>3. CASE Pops(e)
  <2>1. /\ Len(inbox[e]) > 0 /\ Len(inbox'[e]) = Len(inbox[e]) - 1
        /\ Head(inbox[e]) = inbox[e][1]
        /\ \A i \in 1..Len(inbox'[e]) : inbox'[e][i] = inbox[e][i + 1]
    BY <1>0, <1>3, PopFacts DEF Pops
  <2>2. ASSUME NEW n \in 0..Len(inbox'[e]), n = 0 => prompting'[e] /\ k \in {0, 1},
               n # 0 => /\ k = n + 1
                        /\ ShowsIn(flow'[e], unlocked'[e], inbox'[e], n - 1, v)
        PROVE  Expects(prompting'[e], flow'[e], unlocked'[e], inbox'[e])
    <3>1. \A j \in (n + 1)..Len(inbox'[e]) :
              j \in 1..Len(inbox'[e]) /\ j + 1 \in (k + 1)..Len(inbox[e])
      BY <1>i, <2>1, <2>2
    <3>2. \A j \in (n + 1)..Len(inbox'[e]) : inbox'[e][j] # Success
      BY <1>1, <2>1, <3>1, SMTT(30)
    <3>3. n # 0 => inbox'[e][n] = Needed
      BY <1>1, <1>i, <2>1, <2>2
    <3>4. \E c \in 0..Len(inbox'[e]), w \in BOOLEAN :
              /\ ~w
              /\ c = 0 => prompting'[e]
              /\ c # 0 => /\ inbox'[e][c] = Needed
                          /\ ShowsIn(flow'[e], unlocked'[e], inbox'[e], c - 1, w)
              /\ \A j \in (c + 1)..Len(inbox'[e]) : inbox'[e][j] # Success
      BY <1>1, <2>2, <3>2, <3>3
    <3> QED BY <3>4 DEF Expects
  <2>3. CASE k = 0
    <3>1. Head(inbox[e]) # Success
      BY <1>1, <1>i, <2>1, <2>3
    <3>2. Head(inbox[e]) # Done(Signal, TRUE)
      BY <3>1, Zenon DEF Success
    <3>3. prompting'[e]
      BY <1>1, <2>3, <3>2 DEF Endures
    <3>4. 0 \in 0..Len(inbox'[e])
      BY <1>i
    <3> QED BY <2>2, <2>3, <3>3, <3>4
  <2>4. CASE k = 1
    <3>1. ~unlocked[e] /\ Head(inbox[e]) = Needed
      <4>1. ShowsIn(flow[e], unlocked[e], inbox[e], 0, v)
        BY <1>1, <2>4
      <4>2. unlocked[e] = v
        BY <4>1 DEF ShowsIn
      <4> QED BY <1>1, <2>1, <2>4, <4>2
    <3>2. prompting'[e]
      BY <1>3, <3>1 DEF Endures
    <3>3. 0 \in 0..Len(inbox'[e])
      BY <1>i
    <3> QED BY <2>2, <2>4, <3>2, <3>3
  <2>5. CASE k \notin {0, 1}
    <3>1. PICK n \in Nat : n = k - 2
      BY <1>i, <2>5
    <3>2. /\ n + 1 \in 1..Len(inbox[e]) /\ n + 1 \in 0..Len(inbox'[e])
          /\ k - 1 = n + 1 /\ k = (n + 1) + 1 /\ (n + 1) - 1 = n /\ n + 1 # 0
      BY <1>i, <2>1, <2>5, <3>1
    <3>3. ShowsIn(flow[e], unlocked[e], inbox[e], n + 1, v)
      BY <1>1, <2>5, <3>2
    <3>4. ShowsIn(flow'[e], unlocked'[e], inbox'[e], n, v)
      BY <1>0, <1>3, <3>2, <3>3, PopShows
    <3> QED BY <2>2, <3>2, <3>4
  <2> QED BY <2>3, <2>4, <2>5
<1> QED BY <1>2, <1>3 DEF Endures

\* Waits, by what the editor expects.
Awaits(e) ==
    \/ task[e]["cancel"] # Idle
    \/ ~Won(e) /\ Expects(prompting[e], flow[e], unlocked[e], inbox[e])

\* Waiting is having a cancel on its way, or expecting without success.
LEMMA WaitsHere ==
    \A e : Waits(e) <=> Awaits(e)
<1> SUFFICES ASSUME NEW e PROVE Waits(e) <=> Awaits(e)
  OBVIOUS
<1>1. \A k : Shows(e, k, FALSE) <=>
                 \E v \in BOOLEAN : ~v /\ ShowsIn(flow[e], unlocked[e], inbox[e], k, v)
  <2>1. \A k : Shows(e, k, FALSE) <=> ShowsIn(flow[e], unlocked[e], inbox[e], k, FALSE)
    BY ShowsHere, Zenon
  <2>2. \A v \in BOOLEAN : ~v => v = FALSE
    OBVIOUS
  <2> QED BY <2>1, <2>2, Zenon
<1>2. Success = Done(Signal, TRUE)
  BY Zenon DEF Success
<1> HIDE DEF Success
<1> DEFINE shown(k) == Shows(e, k, FALSE)
           success == Done(Signal, TRUE)
<1>3. /\ success = Success
      /\ \A k : shown(k) <=> \E v \in BOOLEAN :
                                 ~v /\ ShowsIn(flow[e], unlocked[e], inbox[e], k, v)
  BY <1>1, <1>2, Zenon
<1>4. Waits(e) <=>
          \/ task[e]["cancel"] # Idle
          \/ /\ ~Won(e)
             /\ \E k \in 0..Len(inbox[e]) :
                    /\ IF k = 0 THEN prompting[e]
                       ELSE inbox[e][k] = Needed /\ shown(k - 1)
                    /\ \A j \in (k + 1)..Len(inbox[e]) : inbox[e][j] # success
  BY Zenon DEF Waits
<1> HIDE DEF shown, success
<1>5. (\E k \in 0..Len(inbox[e]) :
           /\ IF k = 0 THEN prompting[e]
              ELSE inbox[e][k] = Needed /\ shown(k - 1)
           /\ \A j \in (k + 1)..Len(inbox[e]) : inbox[e][j] # success)
      <=> Expects(prompting[e], flow[e], unlocked[e], inbox[e])
  BY <1>3 DEF Expects
<1> QED BY <1>4, <1>5 DEF Awaits

\* The same after a step.
LEMMA WaitsNext ==
    (\A e : Waits(e) <=> Awaits(e))'
  BY WaitsHere, PTL

-----------------------------------------------------------------------------
(* Every step keeps the editors that heard the signal waiting.             *)

\* Every step keeps the editors that heard the signal waiting.
LEMMA RememberedStep ==
    ASSUME IInv, [Next]_vars
    PROVE  Remembered'
<1>0. /\ TypeOK /\ TypeOK' /\ Handled /\ Callers /\ Cached /\ Listening /\ Remembered
  BY BasicsStep DEF IInv
<1>i. /\ Signal \in Flows /\ Signal \in Slots /\ "cancel" \in Slots
      /\ Signal # "cancel" /\ Idle.pc = "none"
      /\ heard \subseteq Editors /\ heard' \subseteq Editors /\ locked \in BOOLEAN
      /\ missed \in BOOLEAN /\ raced \in BOOLEAN /\ AgentTypes
      /\ \A d \in Editors : Len(inbox[d]) \in Nat /\ Len(inbox'[d]) \in Nat
  BY <1>0, PromptAssumption, IdleFacts DEF TypeOK, AgentTypes
<1> SUFFICES ASSUME reader' \in {"capture", "parked"}, ~missed', ~raced', locked',
                    NEW d \in heard' \cap reg'
             PROVE  Waits(d)'
  BY DEF Remembered
<1>d. d \in Editors
  BY <1>i
<1> SUFFICES \/ task'[d]["cancel"] # Idle
             \/ ~Won(d)' /\ Expects(prompting'[d], flow'[d], unlocked'[d], inbox'[d])
  BY WaitsNext DEF Awaits
<1> DEFINE Waiting2 ==
               \/ task'[d]["cancel"] # Idle
               \/ /\ ~Won(d)'
                  /\ Expects(prompting'[d], flow'[d], unlocked'[d], inbox'[d])
<1>1. ASSUME d \in heard, d \in reg, reader \in {"capture", "parked"}, ~missed, ~raced,
             locked
      PROVE  \/ task[d]["cancel"] # Idle
             \/ ~Won(d) /\ Expects(prompting[d], flow[d], unlocked[d], inbox[d])
  <2>1. Waits(d)
    BY <1>0, <1>1 DEF Remembered
  <2> QED BY <2>1, WaitsHere DEF Awaits
<1>w. Won(d)' <=> /\ task'[d][Signal].pc \in {"announce", "reply"}
                  /\ task'[d][Signal].answer = Success
  BY Zenon DEF Won, Success
<1>u. Won(d) <=> /\ task[d][Signal].pc \in {"announce", "reply"}
                 /\ task[d][Signal].answer = Success
  BY Zenon DEF Won, Success
<1>2. ASSUME NEW e \in Editors, EditorStep(e) PROVE Waiting2
  <2>1. Aside /\ UNCHANGED <<locked, reader, heard, missed, raced>>
    BY <1>2, EditorAside
  <2>2. Won(d)' => Won(d)
    BY <1>i, <1>d, <1>w, <1>u, <2>1 DEF Aside
  <2>3. CASE d # e
    <3>1. Untouched(d)
      BY <1>d, <1>2, <2>3, EditorLocal
    <3>2. \/ task[d]["cancel"] # Idle
          \/ ~Won(d) /\ Expects(prompting[d], flow[d], unlocked[d], inbox[d])
      BY <1>1, <2>1, <3>1 DEF Untouched
    <3>3. /\ prompting'[d] = prompting[d] /\ flow'[d] = flow[d]
          /\ unlocked'[d] = unlocked[d] /\ inbox'[d] = inbox[d]
          /\ task'[d]["cancel"] = task[d]["cancel"]
      <4>1. prompting[d] \in BOOLEAN /\ prompting'[d] \in BOOLEAN
        BY <1>0, <1>d DEF TypeOK, EditorTypes
      <4> QED BY <1>i, <3>1, <4>1 DEF Untouched
    <3> QED BY <2>2, <3>2, <3>3
  <2>4. CASE d = e /\ Connect(e)
    <3>1. d \notin reg /\ ed[d] # "gone"
      BY <1>0, <2>4, ConnectFacts
    <3> QED BY <1>0, <2>1, <3>1 DEF Listening
  <2>5. CASE d = e /\ Endures(e)
    <3>1. d \in reg /\ (task[d]["cancel"] # Idle => task'[d]["cancel"] # Idle)
      BY <2>5 DEF Endures
    <3>2. \/ task[d]["cancel"] # Idle
          \/ ~Won(d) /\ Expects(prompting[d], flow[d], unlocked[d], inbox[d])
      BY <1>1, <2>1, <3>1
    <3>3. Expects(prompting[d], flow[d], unlocked[d], inbox[d]) =>
              \/ task'[d]["cancel"] # Idle
              \/ Expects(prompting'[d], flow'[d], unlocked'[d], inbox'[d])
      BY <1>0, <1>d, <2>5, ExpectsOn
    <3> QED BY <2>2, <3>1, <3>2, <3>3
  <2> QED BY <1>2, <2>3, <2>4, <2>5, EditorSelf
<1>3. ASSUME d \in heard, reader \in {"capture", "parked"}, ~missed, ~raced, locked,
             UNCHANGED <<prompting, flow, unlocked, reg>>,
             task'[d]["cancel"] = task[d]["cancel"], Won(d)' => Won(d),
             \/ inbox'[d] = inbox[d]
             \/ /\ Len(inbox'[d]) = Len(inbox[d]) + 1
                /\ \A i \in 1..Len(inbox[d]) : inbox'[d][i] = inbox[d][i]
                /\ inbox'[d][Len(inbox[d]) + 1] = Success => Won(d)
      PROVE  Waiting2
  <2>1. \/ task[d]["cancel"] # Idle
        \/ ~Won(d) /\ Expects(prompting[d], flow[d], unlocked[d], inbox[d])
    BY <1>1, <1>3
  <2>2. ASSUME ~Won(d), Expects(prompting[d], flow[d], unlocked[d], inbox[d])
        PROVE  Expects(prompting[d], flow[d], unlocked[d], inbox'[d])
    <3>1. CASE inbox'[d] = inbox[d]
      BY <2>2, <3>1
    <3>2. CASE /\ Len(inbox'[d]) = Len(inbox[d]) + 1
               /\ \A i \in 1..Len(inbox[d]) : inbox'[d][i] = inbox[d][i]
               /\ inbox'[d][Len(inbox[d]) + 1] = Success => Won(d)
      BY <1>i, <1>d, <2>2, <3>2, ExpectsMore
    <3> QED BY <1>3, <3>1, <3>2
  <2> QED BY <1>3, <2>1, <2>2
<1>4. ASSUME NEW l \in BOOLEAN, SetLocked(l)
      PROVE  locked /\ reader = "parked" /\ ~missed /\ ~raced /\ d \in heard
  <2>1. /\ locked' = l /\ (raced => raced') /\ (missed => missed')
        /\ reader' \in {reader, "idle"} /\ heard' \subseteq heard
        /\ reader = "capture" /\ l => missed'
    BY <1>0, <1>4, SetLockedFacts
  <2>2. reader = "parked"
    BY <2>1
  <2> QED BY <1>0, <2>1, <2>2 DEF Listening
<1>5. ASSUME NEW e \in Editors, NEW s \in Slots,
             RunStatus(e, s) \/ RunInstall(e, s) \/ RunFails(e, s) \/ RunLock(e, s)
      PROVE  Waiting2
  <2>1. /\ UNCHANGED <<editorVars, inbox>>
        /\ task[e][s].pc = "run" /\ task'[e][s].op = task[e][s].op
        /\ Looked(e, s) \/ Changed(e, s) \/ Left(e, s)
        /\ \A c \in Editors, z \in Slots :
               c # e \/ z # s => task'[c][z] = task[c][z]
    BY <1>0, <1>5, RunFacts
  <2>2. UNCHANGED <<prompting, flow, unlocked, inbox>>
    BY <2>1 DEF editorVars
  <2>3. CASE Changed(e, s)
    <3>1. PICK l \in BOOLEAN : SetLocked(l) /\ (l <=> task[e][s].op = "lock")
      BY <2>3 DEF Changed
    <3>2. locked' = l /\ locked
      BY <1>0, <1>4, <3>1, SetLockedFacts
    <3> QED BY <2>3, <3>1, <3>2 DEF Changed
  <2>4. ASSUME Looked(e, s) \/ Left(e, s)
        PROVE  /\ d \in heard /\ reader \in {"capture", "parked"} /\ ~missed /\ ~raced
               /\ locked /\ UNCHANGED reg
    <3>1. CASE UNCHANGED agentVars
      BY <3>1 DEF agentVars, readVars
    <3>2. CASE UNCHANGED reg /\ \E l \in BOOLEAN : SetLocked(l)
      BY <1>4, <3>2
    <3> QED BY <2>4, <3>1, <3>2 DEF Looked, Left
  <2>5. ASSUME Looked(e, s) \/ Left(e, s), s = Signal
        PROVE  task'[e][s].answer # Success
    <3>1. CASE Looked(e, s)
      BY <1>i, <2>5, <3>1, StatusFacts, SuccessFacts DEF Looked
    <3>2. CASE Left(e, s)
      <4>1. PICK ok \in BOOLEAN : ~ok /\ task'[e][s].answer = Done(Signal, ok)
        <5>1. task'[e][s].answer = Done(Signal, FALSE)
          BY <1>i, <2>5, <3>2 DEF Left
        <5> QED BY <5>1, Zenon
      <4> QED BY <4>1, SuccessFacts
    <3> QED BY <2>5, <3>1, <3>2
  <2>6. ASSUME Looked(e, s) \/ Left(e, s) PROVE Won(d)' => Won(d)
    BY <1>i, <1>d, <1>w, <1>u, <2>1, <2>5, <2>6
  <2>7. ASSUME Looked(e, s) \/ Left(e, s)
        PROVE  task'[d]["cancel"] = task[d]["cancel"]
    <3>1. s # "cancel" \/ d # e
      BY <1>0, <2>7 DEF Callers, Caller, Looked, Left
    <3> QED BY <1>i, <1>d, <2>1, <3>1
  <2> QED BY <1>3, <2>1, <2>2, <2>3, <2>4, <2>6, <2>7
<1>6. ASSUME NEW e \in Editors, NEW s \in Slots, RunCancel(e, s) PROVE Waiting2
  <2>1. /\ reader' \in {reader, "idle"}
        /\ reader = "parked" => reader' = "idle"
        /\ reader = "capture" => missed'
    BY <1>0, <1>6, CancelFacts
  <2> QED BY <2>1
<1>7. ASSUME UNCHANGED <<editorVars, reg, locked, readVars, raced>>,
             task'[d]["cancel"] = task[d]["cancel"], Won(d)' => Won(d),
             \/ inbox'[d] = inbox[d]
             \/ /\ Len(inbox'[d]) = Len(inbox[d]) + 1
                /\ \A i \in 1..Len(inbox[d]) : inbox'[d][i] = inbox[d][i]
                /\ inbox'[d][Len(inbox[d]) + 1] = Success => Won(d)
      PROVE  Waiting2
  <2>1. UNCHANGED <<prompting, flow, unlocked, reader, heard, missed>>
    BY <1>7 DEF editorVars, readVars
  <2> QED BY <1>3, <1>7, <2>1
<1>8. ASSUME NEW l \in BOOLEAN, Broadcast(State(l)), UNCHANGED reg
      PROVE  /\ Len(inbox'[d]) = Len(inbox[d]) + 1
             /\ \A i \in 1..Len(inbox[d]) : inbox'[d][i] = inbox[d][i]
             /\ inbox'[d][Len(inbox[d]) + 1] # Success
  <2>1. State(l) \in Messages /\ State(l) # Success
    BY MessageFacts, SuccessFacts
  <2> QED BY <1>0, <1>8, <2>1, BroadcastFacts
<1>9. ASSUME NEW e \in Editors, NEW s \in Slots, Announce(e, s) PROVE Waiting2
  <2>1. /\ UNCHANGED <<editorVars, agentVars>>
        /\ \E l \in BOOLEAN : Broadcast(State(l)) /\ (l <=> task[e][s].op = "lock")
        /\ task[e][s].pc = "announce" /\ task'[e][s].answer = task[e][s].answer
        /\ \A c \in Editors, z \in Slots :
               c # e \/ z # s => task'[c][z] = task[c][z]
    BY <1>0, <1>9, AnnounceFacts
  <2>2. UNCHANGED <<reg, locked, readVars, raced>>
    BY <2>1 DEF agentVars
  <2>3. s # "cancel" \/ d # e
    BY <1>0, <2>1 DEF Callers, Caller
  <2>4. task'[d]["cancel"] = task[d]["cancel"]
    BY <1>i, <1>d, <2>1, <2>3
  <2>5. Won(d)' => Won(d)
    BY <1>i, <1>d, <1>w, <1>u, <2>1
  <2> QED BY <1>7, <1>8, <2>1, <2>2, <2>4, <2>5
<1>10. ASSUME NEW e \in Editors, NEW s \in Slots, Reply(e, s) PROVE Waiting2
  <2>1. /\ UNCHANGED <<editorVars, agentVars>>
        /\ task[e][s].pc = "reply" /\ task'[e][s] = Idle
        /\ Replies(task[e][s].answer, s)
        /\ \A c \in Editors : c # e => inbox'[c] = inbox[c]
        /\ \/ inbox'[e] = inbox[e] /\ (e \notin reg \/ s = "lock")
           \/ /\ e \in reg /\ Len(inbox[e]) \in Nat
              /\ Len(inbox'[e]) = Len(inbox[e]) + 1
              /\ \A i \in 1..Len(inbox[e]) : inbox'[e][i] = inbox[e][i]
              /\ inbox'[e][Len(inbox[e]) + 1] = task[e][s].answer
        /\ \A c \in Editors, z \in Slots :
               c # e \/ z # s => task'[c][z] = task[c][z]
    BY <1>0, <1>10, ReplyFacts
  <2>2. UNCHANGED <<reg, locked, readVars, raced>>
    BY <2>1 DEF agentVars
  <2>3. s # "cancel" \/ d # e
    BY <1>0, <2>1 DEF Callers, Caller
  <2>4. task'[d]["cancel"] = task[d]["cancel"]
    BY <1>i, <1>d, <2>1, <2>3
  <2>5. Won(d)' => Won(d)
    BY <1>i, <1>d, <1>w, <1>u, <2>1
  <2>6. task[e][s].answer = Success /\ d = e => Won(d)
    <3>1. task[e][s].answer = Success => s = Signal
      BY <2>1, SuccessFacts DEF Replies
    <3> QED BY <1>u, <2>1, <3>1
  <2>7. \/ inbox'[d] = inbox[d]
        \/ /\ Len(inbox'[d]) = Len(inbox[d]) + 1
           /\ \A i \in 1..Len(inbox[d]) : inbox'[d][i] = inbox[d][i]
           /\ inbox'[d][Len(inbox[d]) + 1] = Success => Won(d)
    BY <1>d, <2>1, <2>6
  <2> QED BY <1>7, <2>1, <2>2, <2>4, <2>5, <2>7
<1>11. CASE AutoLock
  <2>1. \E l \in BOOLEAN : SetLocked(l)
    BY <1>11, Zenon DEF AutoLock
  <2> QED BY <1>4, <1>11, <2>1 DEF AutoLock
<1>12. CASE AutoAnnounce
  <2>1. UNCHANGED <<editorVars, task, reg, locked, readVars, raced>>
    BY <1>12 DEF AutoAnnounce
  <2>2. \E l \in BOOLEAN : Broadcast(State(l))
    BY <1>12, Zenon DEF AutoAnnounce
  <2>3. Won(d)' => Won(d)
    BY <1>w, <1>u, <2>1
  <2> QED BY <1>7, <1>8, <2>1, <2>2, <2>3
<1>13. CASE ReadSignals
  <2>1. /\ UNCHANGED <<editorVars, task, reg, locked, timer, raced>> /\ Broadcast(Needed)
        /\ heard' = {e \in reg : conn[e] = "ready"}
        /\ missed' = (Announcing \/ Succeeding)
    BY <1>13 DEF ReadSignals
  <2>2. /\ ~Announcing /\ ~Succeeding /\ ~raced /\ locked
        /\ d \in reg /\ conn[d] = "ready" /\ UNCHANGED <<prompting, flow, unlocked>>
    BY <2>1 DEF editorVars
  <2>3. /\ Len(inbox'[d]) = Len(inbox[d]) + 1
        /\ \A i \in 1..Len(inbox[d]) : inbox'[d][i] = inbox[d][i]
        /\ inbox'[d][Len(inbox[d]) + 1] = Needed
    BY <1>0, <2>1, <2>2, MessageFacts, BroadcastFacts
  <2>4. ~Won(d)'
    <3>1. task'[d][Signal] = task[d][Signal] /\ task[d][Signal].pc # "announce"
      BY <1>i, <1>d, <2>1, <2>2 DEF Announcing
    <3>2. task[d][Signal].pc = "reply" => task[d][Signal].answer # Success
      BY <1>d, <2>2, Zenon DEF Succeeding, Success
    <3> QED BY <1>w, <3>1, <3>2
  <2>5. PICK n \in Nat : n = Len(inbox[d])
    BY <1>i, <1>d
  <2>6. PICK v \in BOOLEAN : ~v /\ ShowsIn(flow[d], unlocked[d], inbox[d], n, v)
    <3>1. PICK v \in BOOLEAN : ~v /\ v = ~locked
      BY <2>2, <1>i
    <3>2. Shows(d, Len(inbox[d]), ~locked)
      BY <1>0, <2>2 DEF Cached, Seeded
    <3> QED BY <2>5, <3>1, <3>2, ShowsHere
  <2>7. ShowsIn(flow[d], unlocked[d], inbox'[d], n, v)
    BY <2>3, <2>5, <2>6, ShowsSame
  <2>8. /\ n + 1 \in 0..Len(inbox'[d]) /\ n + 1 # 0 /\ (n + 1) - 1 = n
        /\ inbox'[d][n + 1] = Needed
        /\ \A j \in ((n + 1) + 1)..Len(inbox'[d]) : inbox'[d][j] # Success
    BY <2>3, <2>5
  <2>9. Expects(prompting[d], flow[d], unlocked[d], inbox'[d])
    <3>1. \E k \in 0..Len(inbox'[d]), w \in BOOLEAN :
              /\ ~w
              /\ k = 0 => prompting[d]
              /\ k # 0 => /\ inbox'[d][k] = Needed
                          /\ ShowsIn(flow[d], unlocked[d], inbox'[d], k - 1, w)
              /\ \A j \in (k + 1)..Len(inbox'[d]) : inbox'[d][j] # Success
      BY <2>6, <2>7, <2>8
    <3> QED BY <3>1 DEF Expects
  <2> QED BY <2>2, <2>4, <2>9
<1>14. CASE ReadParks
  <2>1. /\ UNCHANGED <<editorVars, inbox, task, reg, locked, raced>>
        /\ reader = "capture" /\ UNCHANGED <<heard, missed>>
    BY <1>14 DEF ReadParks, Released
  <2>2. Won(d)' => Won(d)
    BY <1>w, <1>u, <2>1
  <2> QED BY <1>3, <2>1, <2>2 DEF editorVars
<1>15. CASE UNCHANGED vars
  <2>1. UNCHANGED <<editorVars, inbox, task, reg, locked, readVars, raced>>
    BY <1>15 DEF vars, editorVars, readVars
  <2>2. Won(d)' => Won(d)
    BY <1>w, <1>u, <2>1
  <2> QED BY <1>7, <2>1, <2>2
<1>16. CASE Read \/ ReadGivesUp \/ AgentDies
  BY <1>16 DEF Read, ReadGivesUp, AgentDies, Released
<1> QED BY <1>2, <1>5, <1>6, <1>9, <1>10, <1>11, <1>12, <1>13, <1>14, <1>15, <1>16,
           StepKinds DEF EditorStep, Serve

-----------------------------------------------------------------------------
(* The invariant, and what it says of the wallet.                          *)

\* The invariant holds before the first editor starts.
LEMMA InitInvariant ==
    Init => IInv
<1> SUFFICES ASSUME Init PROVE IInv
  OBVIOUS
<1>1. /\ \A e \in Editors : /\ ed[e] = "off" /\ conn[e] = "down" /\ inbox[e] = <<>>
                            /\ \A s \in Slots : task[e][s] = Idle
                            /\ \A f \in Flows : flow[e][f] = "none"
      /\ reg = {} /\ timer = "idle" /\ reader = "idle" /\ heard = {}
  BY DEF Init
<1>2. EditorTypes /\ AgentTypes /\ (~locked => exists)
  <2>1. EditorTypes
    BY PromptAssumption DEF Init, EditorTypes
  <2>2. AgentTypes /\ (~locked => exists)
    <3>1. exists \in BOOLEAN /\ (locked = TRUE \/ locked = ~exists)
      BY DEF Init
    <3>2. locked \in BOOLEAN /\ (~locked => exists)
      BY <3>1
    <3>3. raced \in BOOLEAN /\ missed \in BOOLEAN
      BY DEF Init
    <3>4. deaths \in 0..MaxDeaths
      BY PromptAssumption DEF Init
    <3> QED BY <1>1, <3>1, <3>2, <3>3, <3>4 DEF AgentTypes
  <2> QED BY <2>1, <2>2
<1>3. inbox \in [Editors -> Seq(Messages)] /\ task \in [Editors -> [Slots -> Tasks]]
  <2>1. <<>> \in Seq(Messages)
    OBVIOUS
  <2> QED BY <2>1, IdleFacts DEF Init
<1>4. TypeOK
  BY <1>1, <1>2, <1>3 DEF TypeOK
<1>5. PromptingAlive
  BY PromptAssumption DEF Init, PromptingAlive
<1>6. Handled
  BY <1>1, IdleFacts DEF Handled, Holds
<1>7. Flights
  <2>1. \A e \in Editors : \A i \in 1..Len(inbox[e]) : FALSE
    BY <1>1
  <2>2. "none" \notin Waiting /\ Signal \in Flows
    BY PromptAssumption DEF Waiting
  <2>3. ASSUME NEW e \in Editors, NEW f \in Flows PROVE Flight(e, f)
    <3>1. f \in Slots
      BY IdleFacts
    <3> QED BY <1>1, <2>1, <2>2, <3>1, IdleFacts DEF Flight, Answered
  <2> QED BY <1>1, <2>2, <2>3 DEF Flights
<1>8. Callers
  BY <1>1, IdleFacts DEF Callers, Caller
<1>9. Truthful
  BY <1>1, IdleFacts DEF Truthful
<1>10. Cached /\ Listening /\ Remembered
  BY <1>1 DEF Cached, Listening, Remembered
<1> QED BY <1>4, <1>5, <1>6, <1>7, <1>8, <1>9, <1>10 DEF IInv

\* The invariant holds in every behaviour: through every interleaving of the
\* editors' event loops with the agent's handlers, its idle timer, its parked
\* reader and its deaths.
THEOREM Invariant == Spec => []IInv
<1>1. IInv /\ [Next]_vars => IInv'
  BY BasicsStep, FlightsStep, CallersStep, TruthfulStep, CachedStep, ListeningStep,
     RememberedStep DEF IInv
<1> QED BY <1>1, InitInvariant, PTL DEF Spec

\* Every variable keeps its type, the agent's client table holds connections
\* that are up, a connection that is not has no message in store, and only a
\* vault that exists is unlocked.
THEOREM TypeCorrect == Spec => []TypeOK
<1>1. IInv => TypeOK
  BY DEF IInv
<1> QED BY <1>1, Invariant, PTL

\* The flag of init.lua:27 is set exactly while the signal's prompt is alive:
\* no failed request, dismissed prompt or lost agent leaves it behind.
THEOREM FlagFollowsPrompt == Spec => []PromptingAlive
<1>1. IInv => PromptingAlive
  BY DEF IInv
<1> QED BY <1>1, Invariant, PTL

\* The cache of init.lua:23 is the agent's lock state once the messages on
\* their way have been handled, unless a session changed between a handler's
\* look at it and the message about it.
THEOREM CacheIsFresh == Spec => []CacheFollows
<1>1. IInv => CacheFollows
  BY DEF IInv, Cached, CacheFollows, Seeded
<1> QED BY <1>1, Invariant, PTL

\* While a reader is parked, each connected editor that its signal was sent to
\* still has to handle the signal, has a prompt open or has a cancel on its
\* way (init.lua:42-56).
THEOREM ReaderIsPrompted == Spec => []Prompted
<1>1. IInv => Prompted
  <2> SUFFICES ASSUME IInv, reader = "parked", ~missed, ~raced,
                      NEW e \in heard \cap reg, task[e]["cancel"] = Idle,
                      ~prompting[e]
               PROVE  \E i \in 1..Len(inbox[e]) : inbox[e][i] = Needed
    BY DEF Prompted
  <2>1. TypeOK /\ Listening /\ Remembered
    BY DEF IInv
  <2>2. locked /\ Len(inbox[e]) \in Nat
    BY <2>1 DEF Listening, TypeOK, AgentTypes
  <2>3. Waits(e)
    BY <2>1, <2>2 DEF Remembered
  <2>4. Expects(prompting[e], flow[e], unlocked[e], inbox[e])
    BY <2>3, WaitsHere DEF Awaits
  <2>5. PICK k \in 0..Len(inbox[e]) :
            /\ k = 0 => prompting[e]
            /\ k # 0 => inbox[e][k] = Needed
    BY <2>4 DEF Expects
  <2> QED BY <2>2, <2>5
<1> QED BY <1>1, Invariant, PTL
=============================================================================
