------------------------------- MODULE Migrate -------------------------------
(***************************************************************************)
(* Moving plaintext secrets into the wallet: `migrate` in                  *)
(* lua/lvim-keyring/init.lua and `run` in import.lua.  Both list the names *)
(* of the wallet, skip the candidates that are there, send a set for each  *)
(* of the others, all at once, and report when every one is settled; they  *)
(* differ in what comes before.                                            *)
(*                                                                         *)
(* Other clients of the agent change entries meanwhile, the sets run on    *)
(* threads of their own in any order (Agent), and any request may fail: the*)
(* vault was locked and the prompt dismissed, the save failed, or the      *)
(* connection was lost, and then the agent may still store the entry.      *)
(***************************************************************************)
EXTENDS Naturals, Sequences, FiniteSets

CONSTANTS
    Names,
    MaxCandidates,      \* bound: length of the list of candidates
    MaxOthers,          \* bound: changes by other clients
    Empty, Foreign      \* no entry, and a value some other client stored

ASSUME MigrateAssumption ==
    /\ MaxCandidates \in Nat /\ MaxOthers \in Nat
    /\ Empty # Foreign /\ {Empty, Foreign} \cap Nat = {}

VARIABLES
    how,       \* "migrate" or "import"
    cand,      \* the candidates' names; the i-th one's value is i
    wallet,    \* what the agent has for each name
    stage,     \* where the flow is
    present,   \* the names the list told of
    fate,      \* each candidate: new, sent, ok or err (answered), and the
               \* outcome: stored, skipped, failed
    inAgent,   \* candidates whose set the agent has and not run
    pending,   \* migrate's `pending`, import's total less its three counters
    reports,   \* callbacks, or messages to the user, at the end
    others,
    late       \* history: names whose entry the list does not vouch for, as
               \* it failed or another client changed the entry after it

vars == <<how, cand, wallet, stage, present, fate, inAgent, pending, reports,
          others, late>>
input == <<how, cand>>

Candidates == UNION {[1..k -> Names] : k \in 0..MaxCandidates}
Entries == {Empty, Foreign} \cup 1..MaxCandidates
Settled == {"stored", "skipped", "failed"}

Init ==
    /\ how \in {"migrate", "import"}
    /\ cand \in Candidates
    /\ wallet \in [Names -> {Empty, Foreign}]
    /\ stage = "start"
    /\ present = {}
    /\ fate = [i \in DOMAIN cand |-> "new"]
    /\ inAgent = {}
    /\ pending = Len(cand)
    /\ reports = 0
    /\ others = 0
    /\ late = {}

Report == reports' = reports + 1
Goto(s) == stage' = s

-----------------------------------------------------------------------------
(* Before the list.                                                        *)

\* Nothing to do: migrate reports an empty outcome, import warns.
StartEmpty ==
    /\ stage = "start" /\ cand = <<>>
    /\ Goto("over")
    /\ Report
    /\ UNCHANGED <<input, wallet, present, fate, inAgent, pending, others,
                   late>>

\* migrate unlocks and then asks, import asks and then unlocks.
Start ==
    /\ stage = "start" /\ cand # <<>>
    /\ Goto(IF how = "migrate" THEN "unlock" ELSE "confirm")
    /\ UNCHANGED <<input, wallet, present, fate, inAgent, pending, reports,
                   others, late>>

Proceed ==
    /\ \/ /\ stage = "unlock"
          /\ Goto(IF how = "migrate" THEN "confirm" ELSE "list")
       \/ /\ stage = "confirm"
          /\ Goto(IF how = "migrate" THEN "list" ELSE "unlock")
    /\ UNCHANGED <<input, wallet, present, fate, inAgent, pending, reports,
                   others, late>>

\* Not unlocked, or not wanted: migrate calls back with an error, import
\* just stops.
GiveUp ==
    /\ stage \in {"unlock", "confirm"}
    /\ Goto("over")
    /\ IF how = "migrate" THEN Report ELSE UNCHANGED reports
    /\ UNCHANGED <<input, wallet, present, fate, inAgent, pending, others,
                   late>>

\* The agent lists the names.
List ==
    /\ stage = "list"
    /\ present' = {n \in Names : wallet[n] # Empty}
    /\ Goto("listed")
    /\ UNCHANGED <<input, wallet, fate, inAgent, pending, reports, others,
                   late>>

\* Neither flow looks at the error of the list: an empty wallet.
ListFails ==
    /\ stage = "list"
    /\ present' = {}
    /\ late' = Names
    /\ Goto("listed")
    /\ UNCHANGED <<input, wallet, fate, inAgent, pending, reports, others>>

-----------------------------------------------------------------------------
(* The loop over the candidates, and the sets.                             *)

Skips == {i \in DOMAIN cand : cand[i] \in present}

\* Variant: the list is not looked at.
StoreAll ==
    /\ stage = "listed"
    /\ fate' = [i \in DOMAIN cand |-> "sent"]
    /\ inAgent' = DOMAIN cand
    /\ Goto("sets")
    /\ UNCHANGED <<input, wallet, present, pending, reports, others, late>>

\* Variant: a skipped candidate is not counted down.
StoreUncounted ==
    /\ stage = "listed"
    /\ fate' = [i \in DOMAIN cand |-> IF i \in Skips THEN "skipped" ELSE "sent"]
    /\ inAgent' = DOMAIN cand \ Skips
    /\ Goto("sets")
    /\ UNCHANGED <<input, wallet, present, pending, reports, others, late>>

\* The whole loop: skipped at once, or sent.
Store ==
    /\ stage = "listed"
    /\ fate' = [i \in DOMAIN cand |-> IF i \in Skips THEN "skipped" ELSE "sent"]
    /\ inAgent' = DOMAIN cand \ Skips
    /\ pending' = pending - Cardinality(Skips)
    /\ IF pending' = 0 THEN Report /\ Goto("over")
       ELSE UNCHANGED reports /\ Goto("sets")
    /\ UNCHANGED <<input, wallet, present, others, late>>

\* The agent stores the entry; its answer, if it still reaches anybody, is a
\* success, or an error when the save failed.
SetRuns(i) ==
    /\ i \in inAgent
    /\ inAgent' = inAgent \ {i}
    /\ wallet' = [wallet EXCEPT ![cand[i]] = i]
    /\ IF fate[i] = "sent"
       THEN \E a \in {"ok", "err"} : fate' = [fate EXCEPT ![i] = a]
       ELSE UNCHANGED fate
    /\ UNCHANGED <<input, stage, present, pending, reports, others, late>>

\* Or does not: the vault is locked.
SetRefused(i) ==
    /\ i \in inAgent
    /\ inAgent' = inAgent \ {i}
    /\ fate' = [fate EXCEPT ![i] = IF @ = "sent" THEN "err" ELSE @]
    /\ UNCHANGED <<input, wallet, stage, present, pending, reports, others,
                   late>>

\* `teardown` fails the sets that are not answered.
ConnectionLost ==
    /\ \E i \in DOMAIN cand : fate[i] = "sent"
    /\ fate' = [i \in DOMAIN cand |-> IF fate[i] = "sent" THEN "err"
                                      ELSE fate[i]]
    /\ UNCHANGED <<input, wallet, stage, present, inAgent, pending, reports,
                   others, late>>

Outcome(i) == IF fate[i] = "ok" THEN "stored" ELSE "failed"

\* Variant: the error of the set is dropped.
SetAnsweredBlind(i) ==
    /\ stage = "sets" /\ fate[i] \in {"ok", "err"}
    /\ fate' = [fate EXCEPT ![i] = "stored"]
    /\ pending' = pending - 1
    /\ IF pending' = 0 THEN Report /\ Goto("over")
       ELSE UNCHANGED <<reports, stage>>
    /\ UNCHANGED <<input, wallet, present, inAgent, others, late>>

\* Variant: the end is looked for before the countdown.
SetAnsweredEarly(i) ==
    /\ stage = "sets" /\ fate[i] \in {"ok", "err"}
    /\ fate' = [fate EXCEPT ![i] = Outcome(i)]
    /\ pending' = pending - 1
    /\ IF pending = 1 \/ pending = 2 THEN Report ELSE UNCHANGED reports
    /\ IF pending' = 0 THEN Goto("over") ELSE UNCHANGED stage
    /\ UNCHANGED <<input, wallet, present, inAgent, others, late>>

\* The set's callback; the last one reports.
SetAnswered(i) ==
    /\ stage = "sets" /\ fate[i] \in {"ok", "err"}
    /\ fate' = [fate EXCEPT ![i] = Outcome(i)]
    /\ pending' = pending - 1
    /\ IF pending' = 0 THEN Report /\ Goto("over")
       ELSE UNCHANGED <<reports, stage>>
    /\ UNCHANGED <<input, wallet, present, inAgent, others, late>>

-----------------------------------------------------------------------------
\* Another client stores or deletes an entry.
OtherClient(n) ==
    /\ others < MaxOthers
    /\ others' = others + 1
    /\ \E x \in {Empty, Foreign} : wallet' = [wallet EXCEPT ![n] = x]
    /\ late' = IF stage \in {"listed", "sets", "over"} THEN late \cup {n}
               ELSE late
    /\ UNCHANGED <<input, stage, present, fate, inAgent, pending, reports>>

SetSteps(i) == SetRuns(i) \/ SetRefused(i) \/ SetAnswered(i)

Flow ==
    \/ StartEmpty \/ Start
    \/ List \/ ListFails
    \/ Store

Next ==
    \/ Flow
    \/ Proceed \/ GiveUp
    \/ ConnectionLost
    \/ \E i \in DOMAIN cand : SetSteps(i)
    \/ \E n \in Names : OtherClient(n)

Spec == Init /\ [][Next]_vars

\* Requests are answered (ClientConn's RequestAnswered), and the event loop
\* handles the answers.
FairSpec ==
    /\ Spec
    /\ WF_vars(Flow)
    /\ \A i \in 1..MaxCandidates : WF_vars(i \in DOMAIN cand /\ SetSteps(i))

-----------------------------------------------------------------------------
(* Properties.                                                             *)

\* init.lua:304: "An entry already in the wallet is SKIPPED (never
\* clobbered)", import.lua:115 likewise.  A value that another client stored
\* is overwritten only if it came after the list, or the list failed.
NeverClobbered ==
    [][\A n \in Names :
          wallet[n] = Foreign /\ wallet'[n] \in Nat => n \in late]_vars

\* init.lua:303: "the consumer rewrites its own store to reference the
\* wallet".  What is reported as stored is in the wallet with the candidate's
\* value, unless another client changed the entry since the list, the list
\* failed, or the candidates name it twice.
StoredIsThere ==
    reports > 0 =>
        \A i \in DOMAIN cand :
            (/\ fate[i] = "stored"
             /\ cand[i] \notin late
             /\ \A j \in DOMAIN cand : cand[j] = cand[i] => j = i)
                => wallet[cand[i]] = i

\* The outcome is reported once, and when a set was sent, complete: an answer
\* that comes out of order or a list of skipped candidates only does not end
\* it early or twice.  The countdown is what is still to be answered.
ReportsOnce ==
    /\ reports <= 1
    /\ stage = "sets" =>
           pending = Cardinality({i \in DOMAIN cand :
                                      fate[i] \in {"sent", "ok", "err"}})
    /\ reports = 1 /\ (\E i \in DOMAIN cand : fate[i] # "new")
           => \A i \in DOMAIN cand : fate[i] \in Settled

\* Once the wallet is unlocked and the user has agreed, an outcome is
\* reported.
ReportsInTheEnd == stage = "list" ~> reports = 1
=============================================================================
