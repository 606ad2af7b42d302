---------------------------- MODULE AtomicVault ----------------------------
(***************************************************************************)
(* What `vault.rs: write` promises its callers (`create`, `save` and       *)
(* `rotate`): the vault is ONE cell holding a complete sealed document.  A *)
(* call either replaces it whole or leaves it alone, a killed daemon keeps *)
(* what was there, and a power loss can only go back to an older complete  *)
(* document, never to a mixture.                                           *)
(*                                                                         *)
(* The promise is kept to calls that exclude one another (VaultFile with   *)
(* Serial = Writers).  The saves do, under the session mutex; `create` and *)
(* `rotate` take no lock, and what happens when their calls overlap        *)
(* another is CommitShared and Scribble of Agent.                          *)
(***************************************************************************)
CONSTANTS Writers,  \* the threads that may be inside `write`
          Docs,     \* the sealed documents
          NoFile    \* "there is no vault"

VARIABLES vault,    \* what a reader of the vault path finds
          durable,  \* what a power loss would leave there
          call,     \* how far each thread's call of `write` has got
          arg       \* the document that call was given

vars == <<vault, durable, call, arg>>

Init ==
    /\ vault = NoFile
    /\ durable = NoFile
    /\ call = [w \in Writers |-> "idle"]
    /\ arg \in [Writers -> Docs]

Begin(w, d) ==
    /\ call[w] = "idle"
    /\ call' = [call EXCEPT ![w] = "busy"]
    /\ arg' = [arg EXCEPT ![w] = d]
    /\ UNCHANGED <<vault, durable>>

\* The linearization point: the whole document, at once, for a call that no
\* other overlaps.
Commit(w) ==
    /\ call[w] = "busy"
    /\ call' = [call EXCEPT ![w] = "ok"]
    /\ vault' = arg[w]
    /\ UNCHANGED <<durable, arg>>

Abort(w) ==
    /\ call[w] = "busy"
    /\ call' = [call EXCEPT ![w] = "err"]
    /\ UNCHANGED <<vault, durable, arg>>

Return(w) ==
    /\ call[w] \in {"ok", "err"}
    /\ call' = [call EXCEPT ![w] = "idle"]
    /\ UNCHANGED <<vault, durable, arg>>

Harden ==
    /\ durable' = vault
    /\ UNCHANGED <<vault, call, arg>>

Crash ==
    /\ call' = [w \in Writers |-> "idle"]
    /\ UNCHANGED <<vault, durable, arg>>

PowerLoss ==
    /\ vault' = durable
    /\ call' = [w \in Writers |-> "idle"]
    /\ UNCHANGED <<durable, arg>>

Next ==
    \/ \E w \in Writers :
           \/ \E d \in Docs : Begin(w, d)
           \/ Commit(w)
           \/ Abort(w)
           \/ Return(w)
    \/ Harden
    \/ Crash
    \/ PowerLoss

Spec == Init /\ [][Next]_vars
=============================================================================
