----------------------------- MODULE GitHelper -----------------------------
(***************************************************************************)
(* The git credential helper, native/src/credential.rs, beside an agent    *)
(* that stays without an editor and locks itself when idle (AutoLock).     *)
(*                                                                         *)
(* A git command runs the helper twice: `get` before it logs in, then      *)
(* `store` or `erase` once the remote has decided.  Each run makes one     *)
(* connection per request and blocks on it.  One host, one git command at  *)
(* a time; other git commands and editors are the wallet's other clients,  *)
(* which edit, lock and unlock at any moment.                              *)
(***************************************************************************)
EXTENDS AutoLock, Sequences

CONSTANTS
    Tokens, NoToken,
    MaxNotes     \* bound: unread messages on the helper's connection

ASSUME TokensAssumption == NoToken \notin Tokens /\ MaxNotes \in Nat

\* The two entries of the host, in the order `lookup` asks for them.
Names == {"git", "forge"}

VARIABLES
    up,       \* the agent serves
    wallet,   \* what each name holds
    step,     \* idle, get, forge (the second name), login, store, erase
    cred,     \* the password git has
    rpc,      \* its request: none, sent, check, access, answered
    inbox,    \* unread lines on the helper's connection
    steady    \* history: names held, unchanged and within reach since `get`

helperVars == <<step, cred, rpc, inbox>>
gitVars == <<up, wallet, helperVars, steady>>
allVars == <<vars, gitVars>>

\* The helper runs: git waits for it.
Running == {"get", "forge", "store", "erase"}

Note == [kind |-> "note"]
Eof == [kind |-> "eof"]
Reply(t) == [kind |-> "reply", value |-> t]

GitInit ==
    /\ Init
    /\ up = TRUE
    /\ wallet \in [Names -> Tokens \cup {NoToken}]
    /\ step = "idle" /\ cred = NoToken
    /\ rpc = "none" /\ inbox = <<>>
    /\ steady = {}

-----------------------------------------------------------------------------
(* The helper.                                                             *)

\* git asks for the host's password.
Get ==
    /\ step = "idle"
    /\ step' = "get"
    /\ steady' = IF up /\ ~locked THEN {n \in Names : wallet[n] # NoToken}
                 ELSE {}
    /\ UNCHANGED <<vars, up, wallet, cred, rpc, inbox>>

\* The git command is over.
GitEnds == step' = "idle" /\ cred' = NoToken /\ steady' = {}

\* Variant: `lookup` gives up with the first name that has no answer.
GoesOnFirstOnly(t) ==
    IF step \in {"get", "forge"}
    THEN step' = "login" /\ cred' = t /\ UNCHANGED steady
    ELSE GitEnds

\* What the helper does with the outcome of its request, NoToken when there
\* was no answer or not an Ok one: a get tries the second name, prints what
\* it has and exits; store and erase exit in any case.
GoesOn(t) ==
    CASE step = "get" /\ t = NoToken -> step' = "forge" /\ UNCHANGED <<cred, steady>>
      [] step = "forge" \/ t # NoToken ->
             step' = "login" /\ cred' = t /\ UNCHANGED steady
      [] OTHER -> GitEnds

\* Connect and write; without an agent both fail at once.
Ask ==
    /\ step \in Running
    /\ rpc = "none"
    /\ \/ up /\ rpc' = "sent" /\ UNCHANGED <<step, cred, steady>>
       \/ ~up /\ GoesOn(NoToken) /\ UNCHANGED rpc
    /\ UNCHANGED <<vars, up, wallet, inbox>>

\* Variant: the end of the stream is read as an empty line.
ReadSpins ==
    /\ step \in Running
    /\ inbox # <<>>
    /\ LET msg == Head(inbox) IN
         \/ /\ msg.kind = "note"
            /\ inbox' = Tail(inbox)
            /\ UNCHANGED <<step, cred, rpc, steady>>
         \/ /\ msg.kind = "reply"
            /\ GoesOn(msg.value)
            /\ rpc' = "none" /\ inbox' = <<>>
    /\ UNCHANGED <<vars, up, wallet>>

\* One line of the connection: a notification is skipped, an answer or the
\* end of the stream ends the request, and the connection with it.
Read ==
    /\ step \in Running
    /\ inbox # <<>>
    /\ LET msg == Head(inbox) IN
         \/ /\ msg.kind = "note"
            /\ inbox' = Tail(inbox)
            /\ UNCHANGED <<step, cred, rpc, steady>>
         \/ /\ msg.kind # "note"
            /\ GoesOn(IF msg = Eof THEN NoToken ELSE msg.value)
            /\ rpc' = "none" /\ inbox' = <<>>
    /\ UNCHANGED <<vars, up, wallet>>

\* git logs in, with what the user types if it got nothing; an accepted
\* password is stored, a rejected one erased, and a user may give up.
Login ==
    /\ step = "login"
    /\ \/ /\ step' \in {"store", "erase"}
          /\ cred' \in IF cred = NoToken THEN Tokens ELSE {cred}
          /\ UNCHANGED steady
       \/ cred = NoToken /\ GitEnds
    /\ UNCHANGED <<vars, up, wallet, rpc, inbox>>

-----------------------------------------------------------------------------
(* The agent, on the helper's request.                                     *)

Method == CASE step \in {"get", "forge"} -> "secret.get"
            [] step = "store" -> "secret.set"
            [] OTHER -> "secret.delete"

Answer(t) == rpc' = "answered" /\ inbox' = Append(inbox, Reply(t))

AgentDispatches ==
    /\ rpc = "sent"
    /\ Dispatch(Method)
    /\ rpc' = "check"
    /\ UNCHANGED <<up, wallet, step, cred, inbox, steady>>

\* `wait: false`: a locked wallet is an answer.
AgentChecks ==
    /\ rpc = "check"
    /\ \/ locked /\ Answer(NoToken)
       \/ ~locked /\ rpc' = "access" /\ UNCHANGED inbox
    /\ UNCHANGED <<vars, up, wallet, step, cred, steady>>

\* The requests name git/<host> and nothing else; an erase does not say which
\* password was rejected.
Stores ==
    wallet' = CASE step = "store" -> [wallet EXCEPT !["git"] = cred]
                [] step = "erase" -> [wallet EXCEPT !["git"] = NoToken]
                [] OTHER -> wallet

\* The vault may have been locked since the check.
AgentAnswers ==
    /\ rpc = "access"
    /\ \/ /\ locked
          /\ Answer(NoToken)
          /\ UNCHANGED wallet
       \/ /\ ~locked
          /\ Stores
          /\ Answer(CASE step = "get" -> wallet["git"]
                      [] step = "forge" -> wallet["forge"]
                      [] OTHER -> NoToken)
    /\ UNCHANGED <<vars, up, step, cred, steady>>

-----------------------------------------------------------------------------
(* Time, the timer and the wallet's other clients.                         *)

\* Every connection hears of a change of the lock state; what comes after the
\* answer is not read.
Broadcast ==
    inbox' = IF rpc \in {"none", "answered"} \/ Len(inbox) = MaxNotes THEN inbox
             ELSE Append(inbox, Note)

Elsewhere ==
    /\ up
    /\ \/ /\ Pass \/ TickStarts \/ TickLooks
             \/ \E m \in Methods : Dispatch(m)
          /\ UNCHANGED <<inbox, steady>>
       \/ /\ Install
          /\ Broadcast
          /\ UNCHANGED steady
       \/ /\ Lock
          /\ Broadcast
          /\ steady' = {}
       \/ /\ TickLocks
          /\ IF locked THEN UNCHANGED inbox ELSE Broadcast
          /\ steady' = {}
    /\ UNCHANGED <<up, wallet, step, cred, rpc>>

\* A set, a delete, or a rename of one of the names to the other.
OthersEdit ==
    /\ up /\ ~locked
    /\ \/ \E n \in Names, t \in Tokens \cup {NoToken} :
              /\ wallet' = [wallet EXCEPT ![n] = t]
              /\ steady' = steady \ {n}
       \/ \E n, k \in Names :
              /\ wallet[n] # NoToken /\ wallet[k] = NoToken
              /\ wallet' = [wallet EXCEPT ![n] = NoToken, ![k] = wallet[n]]
              /\ steady' = steady \ {n, k}
    /\ UNCHANGED <<vars, up, helperVars>>

\* The agent is killed, and started again by an editor.  The helper reads
\* no further than the answer it may already have.
AgentDies ==
    /\ up
    /\ up' = FALSE
    /\ Restart
    /\ IF rpc \in {"none", "answered"} THEN UNCHANGED <<rpc, inbox>>
       ELSE rpc' = "answered" /\ inbox' = Append(inbox, Eof)
    /\ steady' = {}
    /\ UNCHANGED <<wallet, step, cred>>

AgentStarts ==
    /\ ~up
    /\ up' = TRUE
    /\ UNCHANGED <<vars, wallet, helperVars, steady>>

HelperNext == Get \/ Ask \/ Read \/ Login
AgentNext == AgentDispatches \/ AgentChecks \/ AgentAnswers

GitNext ==
    \/ HelperNext
    \/ AgentNext
    \/ Elsewhere
    \/ OthersEdit
    \/ AgentDies \/ AgentStarts

\* The helper and the agent's threads run; nothing is assumed of the user,
\* of other clients, of the timer or of a dead agent.
GitSpec ==
    /\ GitInit /\ [][GitNext]_allVars
    /\ WF_allVars(Ask) /\ WF_allVars(Read) /\ WF_allVars(AgentNext)

-----------------------------------------------------------------------------
(* Properties.                                                             *)

\* credential.rs:11-13, README.md:238-240: "it never blocks a push".  Every
\* run of the helper ends, over a locked wallet, between a lock and an
\* unlock, and with an agent that dies under its request.
NeverBlocks == step \in Running ~> step \notin Running

\* credential.rs:94-113 asks for one name after the other, each on its own:
\* when the wallet was unlocked and held one of them all along, git gets a
\* password, and the one under git/<host> if that was held all along.
\* credential.rs:149-154 then deletes by name: of a wallet nobody touched
\* since the get, an erase takes exactly the password that was rejected.
RightPassword ==
    [][/\ step' = "login" /\ step \in {"get", "forge"} =>
             /\ steady # {} => cred' # NoToken
             /\ "git" \in steady => cred' = wallet["git"]
       /\ step = "erase" /\ "git" \in steady =>
             /\ rpc = "access" /\ rpc' = "answered" => wallet["git"] = cred
             /\ step' = "idle" => wallet'["git"] = NoToken]_allVars
=============================================================================
