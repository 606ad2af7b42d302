------------------------------- MODULE Agent -------------------------------
(***************************************************************************)
(* The daemon's requests over one session and one vault file: server.rs    *)
(* `create`, `unlock`, `rotate`, `do_lock`, the `secret.*` calls and the   *)
(* idle timer, each on a thread of its own.                                *)
(*                                                                         *)
(* The vault file holds a document of SealedDoc, and a call of `write`     *)
(* that no other overlaps treats it as the one-cell vault of AtomicVault.  *)
(* Calls that overlap share one temporary file, see `CommitShared`.  A     *)
(* step is what a thread does in one critical section of the `session`     *)
(* mutex or in one access to the file; with_session keeps the mutex        *)
(* (`owner`) over its save.  Parking is UnlockGate's subject: here a       *)
(* parked call goes on when the vault is unlocked, or gives up.            *)
(***************************************************************************)
EXTENDS Naturals, FiniteSets, SealedDoc

CONSTANTS
    Threads,       \* requests being handled at once
    Calls,         \* the requests clients send (a subset of AllCalls)
    Names, Values, Metas, NoMeta, Passwords,
    Salts,
    Costs,         \* KDF costs a vault may have been written with
    Kdf,           \* the cost this agent is configured with
    MaxRequests,   \* bound: requests in one behaviour
    NoFile, NoSession, NoEntry, NoOne, Absent, Unknown,
    Torn           \* a file that mixes or cuts documents: nothing opens it

Entries == [value : Values, meta : Metas]
Bodies  == [Names -> Entries \cup {NoEntry}]
EmptyBody == [n \in Names |-> NoEntry]
Keys == [pw : Passwords, salt : Salts, params : Costs]
Sessions == [body : Bodies, key : Keys, salt : Salts, params : Costs]
Sealed == [params : Costs, salt : Salts,
           text : [key : Keys, aad : [params : Costs, salt : Salts],
                   body : Bodies]]

\* The daemon caps the delay at the fifth consecutive failure.
FailCap == 5

LifeCalls ==
    [op : {"create", "unlock"}, pw : Passwords]
        \cup [op : {"rotate"}, old : Passwords, pw : Passwords]
        \cup [op : {"lock"}]
EditCalls ==
    [op : {"set"}, name : Names, value : Values \cup {Absent},
     meta : Metas \cup {Absent}, wait : BOOLEAN]
        \cup [op : {"delete"}, name : Names, wait : BOOLEAN]
        \cup [op : {"rename"}, from : Names, to : Names, wait : BOOLEAN]
        \cup [op : {"generate"}, name : Names, value : Values, wait : {TRUE}]
ReadCalls ==
    [op : {"get", "totp"}, name : Names, wait : BOOLEAN]
        \cup [op : {"list"}, wait : BOOLEAN]
AllCalls == LifeCalls \cup EditCalls \cup ReadCalls

ASSUME CallsAssumption == Calls \subseteq AllCalls
ASSUME BoundAssumption == MaxRequests \in Nat
ASSUME CostAssumption ==
    /\ Costs \subseteq [mCost : Nat, tCost : Nat, pCost : Nat]
    /\ Kdf \in Costs
ASSUME AbsentAssumption ==
    /\ NoEntry \notin Entries /\ NoSession \notin Sessions
    /\ NoFile \notin Sealed /\ NoOne \notin Calls
    /\ Torn \notin Sealed \cup {NoFile}
    /\ Absent \notin Values \cup Metas /\ NoMeta \in Metas
    /\ NoOne \notin Threads /\ Unknown \notin Passwords

VARIABLES
    session,    \* `Inner.session`: the unlocked body and its key, or NoSession
    owner,      \* the thread that keeps the session mutex over its save
    failCount,  \* `Inner.fail_count`
    vault,      \* the file at the vault path
    call, arg,  \* the calls of `write`, see AtomicVault
    durable,    \* AtomicVault's; stays NoFile, no power is lost here
    tmp,        \* the calls that opened, or will open, the file at <vault>.tmp
    opened,     \* other calls that opened the file now at the vault path, as
                \* their .tmp
    pc,         \* where each thread is in its handler
    req,        \* the request it handles
    loaded,     \* the Session a create, unlock or rotate is about to install
    sent,       \* requests sent so far
    acked,      \* history: per name, the entry clients were told is stored
    unsure,     \* history: names whose last edit failed, or died with a crash
    master,     \* history: the password the last create or rotate set
    clash,      \* history: a write fell into the file window of a create,
                \* unlock or rotate, or overlapped one of their writes
    blended     \* history: the file at the vault path is a .tmp that another
                \* call than the one that renamed it had opened too

serverVars == <<session, owner, failCount, loaded>>
tmpVars == <<tmp, opened>>
fileVars == <<vault, call, arg, durable, tmp, opened>>
history == <<acked, unsure, master, clash, blended>>
vars == <<session, owner, failCount, vault, call, arg, durable, tmp, opened,
          pc, req, loaded, sent, acked, unsure, master, clash, blended>>

AV == INSTANCE AtomicVault WITH Writers <- Threads, Docs <- Sealed

-----------------------------------------------------------------------------
(* What an edit does to the body: whether the closure returns Ok, and the  *)
(* body it leaves.                                                         *)

Keep(x, old) == IF x = Absent THEN old ELSE x

\* Variant: a rename does not look at its target.
EditOkRenameOver(c, b) ==
    CASE c.op = "set"      -> b[c.name] # NoEntry \/ c.value # Absent
      [] c.op = "delete"   -> b[c.name] # NoEntry
      [] c.op = "rename"   -> b[c.from] # NoEntry
      [] c.op = "generate" -> TRUE

EditOk(c, b) ==
    CASE c.op = "set"      -> b[c.name] # NoEntry \/ c.value # Absent
      [] c.op = "delete"   -> b[c.name] # NoEntry
      [] c.op = "rename"   -> b[c.to] = NoEntry /\ b[c.from] # NoEntry
      [] c.op = "generate" -> TRUE

\* A meta-only set keeps the value, a value-only set and a generate keep the
\* meta.
Upsert(b, n, v, m) ==
    [b EXCEPT ![n] = IF b[n] = NoEntry
                     THEN [value |-> v, meta |-> Keep(m, NoMeta)]
                     ELSE [value |-> Keep(v, b[n].value),
                           meta |-> Keep(m, b[n].meta)]]

Edited(c, b) ==
    CASE c.op = "set"      -> Upsert(b, c.name, c.value, c.meta)
      [] c.op = "delete"   -> [b EXCEPT ![c.name] = NoEntry]
      [] c.op = "rename"   -> [b EXCEPT ![c.from] = NoEntry,
                                        ![c.to] = b[c.from]]
      [] c.op = "generate" -> Upsert(b, c.name, c.value, Absent)

Touched(c) == CASE c.op \in {"set", "delete", "generate"} -> {c.name}
                [] c.op = "rename" -> {c.from, c.to}
                [] OTHER -> {}

-----------------------------------------------------------------------------
\* The daemon starts locked, over no vault or over one from an earlier life.
Init ==
    /\ session = NoSession
    /\ owner = NoOne
    /\ failCount = 0
    /\ vault \in {NoFile} \cup
          {Document(Session(b, p, s, k)) : b \in Bodies, p \in Passwords,
                                           s \in Salts,
                                           k \in {c \in Costs : Valid(c)}}
    /\ durable = NoFile
    /\ tmp = {}
    /\ opened = {}
    /\ call = [t \in Threads |-> "idle"]
    /\ arg = [t \in Threads |-> NoFile]
    /\ pc = [t \in Threads |-> "idle"]
    /\ req = [t \in Threads |-> NoOne]
    /\ loaded = [t \in Threads |-> NoSession]
    /\ sent = 0
    /\ acked = IF vault = NoFile THEN EmptyBody ELSE vault.text.body
    /\ unsure = {}
    /\ master = IF vault = NoFile THEN Unknown ELSE vault.text.key.pw
    /\ clash = FALSE
    /\ blended = FALSE

Goto(t, l) == pc' = [pc EXCEPT ![t] = l]
\* The handler returns and the thread forgets the request.
Done(t) == Goto(t, "idle") /\ req' = [req EXCEPT ![t] = NoOne]
Op(t) == req[t].op

\* A create, unlock or rotate that has looked at the file and not installed.
Window == {"derive", "writing", "install"}

Submit(t, c) ==
    /\ pc[t] = "idle"
    /\ sent < MaxRequests
    /\ sent' = sent + 1
    /\ req' = [req EXCEPT ![t] = c]
    /\ Goto(t, CASE c.op = "create" -> "exists"
                 [] c.op \in {"unlock", "rotate"} -> "read"
                 [] c.op = "lock" -> "lock"
                 [] OTHER -> "check")
    /\ UNCHANGED <<serverVars, fileVars, history>>

-----------------------------------------------------------------------------
(* `vault::create`, `vault::unlock`, `vault::rotate`: no lock is held.     *)

\* A salt is drawn at random: it may be any.
CreateExists(t) ==
    /\ pc[t] = "exists"
    /\ \/ /\ vault # NoFile
          /\ Done(t)
          /\ UNCHANGED loaded
       \/ /\ vault = NoFile
          /\ Goto(t, "derive")
          /\ \E s \in Salts : loaded' = [loaded EXCEPT
                                  ![t] = Session(EmptyBody, req[t].pw, s, Kdf)]
          /\ UNCHANGED req
    /\ UNCHANGED <<session, owner, failCount, fileVars, sent, history>>

OpensWith(p) == vault \notin {NoFile, Torn} /\ Unlockable(vault, p)

\* `unlock`: the file is read and opened; derive_key is only time.
UnlockRead(t) ==
    /\ pc[t] = "read"
    /\ Op(t) = "unlock"
    /\ OpensWith(req[t].pw)
    /\ loaded' = [loaded EXCEPT ![t] = Unlocked(vault, req[t].pw)]
    /\ Goto(t, "install")
    /\ UNCHANGED <<session, owner, failCount, fileVars, req, sent, history>>

\* A wrong password is counted; the thread sleeps before it answers.
UnlockFails(t) ==
    /\ pc[t] = "read"
    /\ Op(t) = "unlock"
    /\ ~OpensWith(req[t].pw)
    /\ failCount' = IF failCount < FailCap THEN failCount + 1 ELSE failCount
    /\ Goto(t, "backoff")
    /\ UNCHANGED <<session, owner, loaded, fileVars, req, sent, history>>

BackoffEnds(t) ==
    /\ pc[t] = "backoff"
    /\ Done(t)
    /\ UNCHANGED <<serverVars, fileVars, sent, history>>

Rotate(t, to) ==
    /\ pc[t] = "read"
    /\ Op(t) = "rotate"
    /\ \/ /\ OpensWith(req[t].old)
          /\ loaded' = [loaded EXCEPT ![t] = to]
          /\ Goto(t, "derive")
          /\ UNCHANGED req
       \/ /\ ~OpensWith(req[t].old)
          /\ Done(t)
          /\ UNCHANGED loaded
    /\ UNCHANGED <<session, owner, failCount, fileVars, sent, history>>

\* Variant: the entries are not carried over.
RotateEmpty(t) ==
    \E s \in Salts : Rotate(t, Session(EmptyBody, req[t].pw, s, Kdf))

\* Variant: the body is sealed again under the old key.
RotateOldKey(t) == Rotate(t, Unlocked(vault, req[t].old))

\* Variant: the header keeps the old salt.
RotateOldSalt(t) ==
    \E s \in Salts :
        Rotate(t, [Session(vault.text.body, req[t].pw, s, Kdf)
                      EXCEPT !.salt = vault.salt])

\* `rotate` opens with the old password and carries the entries over, under a
\* key from a salt drawn at random and the configured cost.
RotateRead(t) ==
    \E s \in Salts : Rotate(t, Session(vault.text.body, req[t].pw, s, Kdf))

\* derive_key refuses the parameters; nothing was written.
DeriveFails(t) ==
    /\ pc[t] = "derive"
    /\ loaded' = [loaded EXCEPT ![t] = NoSession]
    /\ Done(t)
    /\ UNCHANGED <<session, owner, failCount, fileVars, sent, history>>

\* `write` is called.  Every call opens the same .tmp and truncates it: what
\* a call that has returned left there is gone, the calls still running share
\* the file.
Write(t, d) ==
    /\ AV!Begin(t, d)
    /\ tmp' = {u \in tmp : call[u] = "busy"} \cup {t}
    /\ opened' = opened \ {t}

\* The key is derived and `write` is called.
WriteLoaded(t) ==
    /\ pc[t] = "derive"
    /\ Valid(loaded[t].params)
    /\ Write(t, Document(loaded[t]))
    /\ Goto(t, "writing")
    /\ clash' = (clash \/ \E u \in Threads : call[u] # "idle")
    /\ UNCHANGED <<serverVars, req, sent, acked, unsure, master, blended>>

\* The rename of any request's `write`, when no other call has opened the
\* .tmp yet: those that share it in `tmp` will make a new one.
Commit(t) ==
    /\ AV!Commit(t)
    /\ t \in tmp
    /\ \A u \in tmp : call[u] = "busy"
    /\ tmp' = tmp \ {t}
    /\ opened' = {}
    /\ clash' = (clash \/ \E u \in Threads \ {t} : pc[u] \in Window)
    /\ blended' = FALSE
    /\ UNCHANGED <<serverVars, pc, req, sent, acked, unsure, master>>

\* What several calls may leave in one file: one of their documents, or
\* pieces of several (VaultFile has the system calls that show how).
Blends(who) == {Torn} \cup {arg[u] : u \in who}

\* The rename of a .tmp that other calls have opened too, or that is not this
\* call's own any more.  Running calls not in `who` open theirs later.
CommitShared(t) ==
    /\ call[t] = "busy"
    /\ \E who \in SUBSET tmp \ {{}, {t}} :
          /\ t \in tmp => t \in who
          /\ \A u \in tmp \ who : call[u] = "busy"
          /\ vault' \in Blends(who)
          /\ tmp' = tmp \ who
          /\ opened' = who \ {t}
    /\ call' = [call EXCEPT ![t] = "ok"]
    /\ clash' = TRUE
    /\ blended' = TRUE
    /\ UNCHANGED <<serverVars, durable, arg, pc, req, sent, acked, unsure,
                   master>>

\* A call whose .tmp another call has renamed goes on writing: into the vault.
\* It has no .tmp to rename then, and fails unless there is a new one.
Scribble(t) ==
    /\ call[t] = "busy"
    /\ t \in opened
    /\ vault' \in Blends({t})
    /\ UNCHANGED <<serverVars, call, arg, durable, tmpVars, pc, req, sent,
                   history>>

WriteFails(t) ==
    /\ AV!Abort(t)
    /\ UNCHANGED <<serverVars, tmpVars, pc, req, sent, history>>

\* `write` returns to create or rotate; an error is answered at once.
Written(t) ==
    /\ pc[t] = "writing"
    /\ AV!Return(t)
    /\ \/ /\ call[t] = "ok"
          /\ Goto(t, "install")
          /\ UNCHANGED <<req, loaded>>
       \/ /\ call[t] = "err"
          /\ Done(t)
          /\ loaded' = [loaded EXCEPT ![t] = NoSession]
    /\ UNCHANGED <<session, owner, failCount, tmpVars, sent, history>>

\* The session is replaced whole.  From here on a create's or rotate's
\* password is in force.
Install(t) ==
    /\ pc[t] = "install"
    /\ owner = NoOne
    /\ session' = loaded[t]
    /\ loaded' = [loaded EXCEPT ![t] = NoSession]
    /\ Goto(t, "reset")
    /\ master' = IF Op(t) = "unlock" THEN master ELSE req[t].pw
    /\ UNCHANGED <<owner, failCount, fileVars, req, sent, acked, unsure, clash,
                   blended>>

\* The failure count is cleared and the caller is told.
Reset(t) ==
    /\ pc[t] = "reset"
    /\ failCount' = 0
    /\ Done(t)
    /\ UNCHANGED <<session, owner, loaded, fileVars, sent, history>>

-----------------------------------------------------------------------------
(* Locking.                                                                *)

\* Variant: the session is dropped while a save is running.
LockNow(t) ==
    /\ pc[t] = "lock"
    /\ session' = NoSession
    /\ Done(t)
    /\ UNCHANGED <<owner, failCount, loaded, fileVars, sent, history>>

Lock(t) ==
    /\ pc[t] = "lock"
    /\ owner = NoOne
    /\ session' = NoSession
    /\ Done(t)
    /\ UNCHANGED <<owner, failCount, loaded, fileVars, sent, history>>

\* The idle timer's tick.
AutoLock ==
    /\ session # NoSession
    /\ owner = NoOne
    /\ session' = NoSession
    /\ UNCHANGED <<owner, failCount, loaded, fileVars, pc, req, sent, history>>

-----------------------------------------------------------------------------
(* The `secret.*` calls.                                                   *)

\* `is_locked`, and the decision to park.
Check(t) ==
    /\ pc[t] = "check"
    /\ owner = NoOne
    /\ \/ session # NoSession /\ Goto(t, "access") /\ UNCHANGED req
       \/ /\ session = NoSession
          /\ \/ req[t].wait /\ Goto(t, "parked") /\ UNCHANGED req
             \/ ~req[t].wait /\ Done(t)
    /\ UNCHANGED <<serverVars, fileVars, sent, history>>

Unpark(t) ==
    /\ pc[t] = "parked"
    /\ owner = NoOne
    /\ session # NoSession
    /\ Goto(t, "access")
    /\ UNCHANGED <<serverVars, fileVars, req, sent, history>>

\* A cancel or the deadline.
GiveUp(t) ==
    /\ pc[t] = "parked"
    /\ Done(t)
    /\ UNCHANGED <<serverVars, fileVars, sent, history>>

\* `read_session`, `secret_list`: the answer is taken under the mutex.
Read(t) ==
    /\ pc[t] = "access"
    /\ owner = NoOne
    /\ req[t] \in ReadCalls
    /\ Done(t)
    /\ UNCHANGED <<serverVars, fileVars, sent, history>>

\* `with_session` when the vault was locked again, or the closure fails: it
\* leaves the body alone and nothing is saved.
EditRefused(t) ==
    /\ pc[t] = "access"
    /\ owner = NoOne
    /\ req[t] \in EditCalls
    /\ session # NoSession => ~EditOk(req[t], session.body)
    /\ Done(t)
    /\ UNCHANGED <<serverVars, fileVars, sent, history>>

\* Variant: the mutex is given back before the save.
EditThenRelease(t) ==
    /\ pc[t] = "access"
    /\ owner = NoOne
    /\ req[t] \in EditCalls
    /\ session # NoSession
    /\ EditOk(req[t], session.body)
    /\ session' = [session EXCEPT !.body = Edited(req[t], session.body)]
    /\ Write(t, Document(session'))
    /\ Goto(t, "saving")
    /\ UNCHANGED <<owner, failCount, loaded, req, sent, history>>

\* `with_session`: edit the body in memory, then save it, all under the mutex.
Edit(t) ==
    /\ pc[t] = "access"
    /\ owner = NoOne
    /\ req[t] \in EditCalls
    /\ session # NoSession
    /\ EditOk(req[t], session.body)
    /\ session' = [session EXCEPT !.body = Edited(req[t], session.body)]
    /\ Write(t, Document(session'))
    /\ owner' = t
    /\ Goto(t, "saving")
    /\ clash' = (clash \/ \E u \in Threads : pc[u] = "writing")
    /\ UNCHANGED <<failCount, loaded, req, sent, acked, unsure, master, blended>>

\* Variant: the error of `save` is dropped.
SavedErrorDropped(t) ==
    /\ pc[t] = "saving"
    /\ AV!Return(t)
    /\ owner' = NoOne
    /\ Done(t)
    /\ acked' = [n \in Names |-> IF n \in Touched(req[t]) THEN arg[t].text.body[n]
                                 ELSE acked[n]]
    /\ unsure' = unsure \ Touched(req[t])
    /\ UNCHANGED <<session, failCount, loaded, tmpVars, sent, master, clash,
                   blended>>

\* `save` returns; the body in memory keeps the edit even after an error.
Saved(t) ==
    /\ pc[t] = "saving"
    /\ AV!Return(t)
    /\ owner' = NoOne
    /\ Done(t)
    /\ LET ns == Touched(req[t]) IN
         \/ /\ call[t] = "ok"
            /\ acked' = [n \in Names |-> IF n \in ns THEN arg[t].text.body[n]
                                         ELSE acked[n]]
            /\ unsure' = unsure \ ns
         \/ /\ call[t] = "err"
            /\ unsure' = unsure \cup ns
            /\ UNCHANGED acked
    /\ UNCHANGED <<session, failCount, loaded, tmpVars, sent, master, clash,
                   blended>>

-----------------------------------------------------------------------------
\* Names an edit is being saved for: their outcome is still open.
Saving == UNION {Touched(req[t]) : t \in {u \in Threads : pc[u] = "saving"}}

\* The daemon dies (kill, or exit with the last client) and starts again.
\* What was in flight may or may not have reached the file.
Crash ==
    /\ \E t \in Threads : pc[t] # "idle"
    /\ AV!Crash
    /\ tmp' = {}
    /\ opened' = {}
    /\ session' = NoSession
    /\ owner' = NoOne
    /\ failCount' = 0
    /\ pc' = [t \in Threads |-> "idle"]
    /\ req' = [t \in Threads |-> NoOne]
    /\ loaded' = [t \in Threads |-> NoSession]
    /\ unsure' = unsure \cup Saving
    /\ master' = IF \E t \in Threads : pc[t] \in {"writing", "install"}
                                       /\ Op(t) # "unlock"
                 THEN Unknown ELSE master
    /\ UNCHANGED <<sent, acked, clash, blended>>

Next ==
    \/ \E t \in Threads :
           \/ \E c \in Calls : Submit(t, c)
           \/ CreateExists(t)
           \/ UnlockRead(t)
           \/ UnlockFails(t)
           \/ BackoffEnds(t)
           \/ RotateRead(t)
           \/ DeriveFails(t)
           \/ WriteLoaded(t)
           \/ Commit(t)
           \/ CommitShared(t)
           \/ Scribble(t)
           \/ WriteFails(t)
           \/ Written(t)
           \/ Install(t)
           \/ Reset(t)
           \/ Lock(t)
           \/ Check(t)
           \/ Unpark(t)
           \/ GiveUp(t)
           \/ Read(t)
           \/ EditRefused(t)
           \/ Edit(t)
           \/ Saved(t)
    \/ AutoLock
    \/ Crash

Spec == Init /\ [][Next]_vars

-----------------------------------------------------------------------------
(* Properties.                                                             *)

\* Where a request can be.
Path(c) ==
    CASE c.op = "create" -> {"exists", "derive", "writing", "install", "reset"}
      [] c.op = "unlock" -> {"read", "backoff", "install", "reset"}
      [] c.op = "rotate" -> {"read", "derive", "writing", "install", "reset"}
      [] c.op = "lock"   -> {"lock"}
      [] c.op \in {"get", "totp", "list"} -> {"check", "parked", "access"}
      [] OTHER -> {"check", "parked", "access", "saving"}
Labels == {"idle", "exists", "read", "derive", "writing", "install", "reset",
           "backoff", "lock", "check", "parked", "access", "saving"}

\* The mutex is kept exactly over a save, and what a create, unlock or
\* rotate carries is a session.
Placed(t) ==
    /\ pc[t] # "idle" => req[t] \in Calls /\ pc[t] \in Path(req[t])
    /\ owner = t <=> pc[t] = "saving"
    /\ call[t] # "idle" <=> pc[t] \in {"writing", "saving"}
    /\ call[t] # "idle" => arg[t] \in Sealed
    /\ loaded[t] \in Sessions <=> pc[t] \in Window

\* Every variable has its type, and every thread is where its request, its
\* write and its session say.
TypeOK ==
    /\ session \in Sessions \cup {NoSession}
    /\ owner \in Threads \cup {NoOne}
    /\ failCount \in 0..FailCap
    /\ vault \in Sealed \cup {NoFile, Torn}
    /\ tmp \subseteq Threads
    /\ opened \subseteq Threads
    /\ call \in [Threads -> {"idle", "busy", "ok", "err"}]
    /\ arg \in [Threads -> Sealed \cup {NoFile}]
    /\ pc \in [Threads -> Labels]
    /\ req \in [Threads -> Calls \cup {NoOne}]
    /\ loaded \in [Threads -> Sessions \cup {NoSession}]
    /\ sent \in 0..MaxRequests
    /\ acked \in Bodies
    /\ unsure \subseteq Names
    /\ master \in Passwords \cup {Unknown}
    /\ clash \in BOOLEAN
    /\ blended \in BOOLEAN
    /\ \A t \in Threads : Placed(t)

\* While a save runs, no lock, install or other edit changes the session
\* under it (server.rs:395-399 keeps the guard): what is being written is
\* what is in memory.
SaveMatchesMemory ==
    \A t \in Threads : pc[t] = "saving" =>
        session # NoSession /\ Document(session) = arg[t]

\* What an edit may cost: a delete its own entry, a set what it was given, a
\* generate the value, a rename nothing, not even an entry at its target.
LosesOnly(c, old, new) ==
    \A n \in Names : old[n] # NoEntry =>
        \/ new[n] = old[n]
        \/ c.op = "delete" /\ c.name = n
        \/ c.op = "rename" /\ c.from = n /\ new[c.to] = old[n]
        \/ /\ c.op = "generate" /\ c.name = n
           /\ new[n].meta = old[n].meta
        \/ /\ c.op = "set" /\ c.name = n
           /\ c.value = Absent => new[n].value = old[n].value
           /\ c.meta = Absent => new[n].meta = old[n].meta

\* An edit that takes the mutex costs nothing but what it names
\* (server.rs:431-496, 512-538).
NothingElseLost ==
    [][\A t \in Threads : owner # t /\ owner' = t =>
          LosesOnly(req[t], session.body, session'.body)]_vars

\* What the file holds for the names whose outcome is settled.
InVault == \A n \in Names \ (unsure \cup Saving) :
    vault \notin {NoFile, Torn} => vault.text.body[n] = acked[n]

\* An edit answered Ok is in the file, through every later edit, failed
\* save, lock, unlock, rotate and crash, as long as no write falls between
\* another request's look at the file and its install (server.rs:318-383
\* takes no lock over that window).
AckedDurable == ~clash => vault # Torn /\ InVault

\* Under the same condition an unlocked session shows what was acknowledged.
AckedVisible ==
    ~clash /\ session # NoSession =>
        \A n \in Names \ (unsure \cup Saving) : session.body[n] = acked[n]

\* A create or rotate that may have written and not yet installed.
Rekeying == \E t \in Threads : /\ pc[t] \in {"writing", "install"}
                               /\ Op(t) # "unlock"

\* Under the same condition the file opens with the password of the last
\* create or rotate that succeeded, and with no other.
PasswordCurrent ==
    ~clash /\ vault # NoFile /\ master # Unknown /\ ~Rekeying =>
        \A p \in Passwords : OpensWith(p) <=> p = master

\* A save seals with the key the session came with, under the salt and cost
\* kept beside it (vault.rs:103-108, 267-270): however creates, unlocks,
\* rotates, saves and crashes interleave, and whatever cost the agent is
\* configured with, the file opens with one of the passwords somebody set,
\* unless calls of `write` shared the .tmp that became the vault
\* (vault.rs:196-214); and a later call with a .tmp of its own repairs that.
NeverSealedShut ==
    vault # NoFile /\ ~blended => \E p \in Passwords : OpensWith(p)

\* vault.rs:279: "Carry the entries from the old session into the new one",
\* and the test at vault.rs:412, rotate_changes_password_and_keeps_entries:
\* acknowledged edits survive a rotate, at least when no two calls of `write`
\* shared a .tmp.
EntriesKept == ~blended => InVault
=============================================================================
