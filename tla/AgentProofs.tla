---------------------------- MODULE AgentProofs ----------------------------
(***************************************************************************)
(* The agent's requests for any threads, requests, names, passwords and    *)
(* KDF costs: a save writes what is in memory, an edit costs nothing but   *)
(* what it names, the file opens with a password somebody set unless calls *)
(* of `write` shared the .tmp it came from, and as long as no write falls  *)
(* into another request's window on the file, what was acknowledged is in  *)
(* the file, is seen, and opens with the password in force.                *)
(***************************************************************************)
EXTENDS Agent, TLAPS

-----------------------------------------------------------------------------
(* Sealed documents.                                                       *)

\* vault.rs:267-270 saves without the password: the document of a coherent
\* session opens with its password and with no other, and gives the session
\* back, whatever cost the agent is configured with.
THEOREM RoundTrip ==
    ASSUME NEW s, NEW pw, Coherent(s, pw)
    PROVE  /\ \A q : Unlockable(Document(s), q) <=> q = pw
           /\ Unlocked(Document(s), pw) = s
<1>1. s.key = DeriveKey(pw, s.salt, s.params) /\ Valid(s.params)
  BY DEF Coherent, Session
<1>2. ASSUME NEW q PROVE Unlockable(Document(s), q) <=> q = pw
  <2>1. Unlockable(Document(s), q)
          <=> s.key = DeriveKey(q, s.salt, s.params)
    BY <1>1 DEF Unlockable, Document, Opens, Seal
  <2>2. DeriveKey(pw, s.salt, s.params) = DeriveKey(q, s.salt, s.params)
          <=> q = pw
    BY DEF DeriveKey
  <2> QED BY <1>1, <2>1, <2>2
<1>3. Unlocked(Document(s), pw) = Session(s.body, pw, s.salt, s.params)
  BY DEF Unlocked, Document, Seal
<1> QED BY <1>2, <1>3 DEF Coherent

\* vault.rs:400, header_tamper_fails_auth: with another salt or another cost
\* in its header, the ciphertext opens with no password.
THEOREM HeaderAuthenticated ==
    ASSUME NEW s, NEW params, NEW salt, NEW q,
           <<params, salt>> # <<s.params, s.salt>>
    PROVE  ~Unlockable([params |-> params, salt |-> salt,
                        text |-> Document(s).text], q)
<1>1. Aad(params, salt) # Aad(s.params, s.salt)
  BY DEF Aad
<1>2. Document(s).text.aad = Aad(s.params, s.salt)
  BY DEF Document, Seal
<1> QED BY <1>1, <1>2 DEF Unlockable, Opens
-----------------------------------------------------------------------------
(* Sessions and documents of the agent.                                    *)

\* A document that some session was sealed into.
SealedWell(d) ==
    /\ d = Document(Session(d.text.body, d.text.key.pw, d.salt, d.params))
    /\ Valid(d.params)

\* A session as create, unlock and rotate make it, at any cost.
Made(s) == s = Session(s.body, s.key.pw, s.salt, s.params)

\* What create, unlock and rotate load is a session for that password.
LEMMA SessionFacts ==
    ASSUME NEW b \in Bodies, NEW p \in Passwords, NEW s \in Salts,
           NEW k \in Costs
    PROVE  /\ Session(b, p, s, k) \in Sessions
           /\ Session(b, p, s, k).body = b
           /\ Session(b, p, s, k).key.pw = p
           /\ Session(b, p, s, k).salt = s
           /\ Session(b, p, s, k).params = k
           /\ Made(Session(b, p, s, k))
  BY DEF Session, Sessions, Keys, DeriveKey, Made

\* What `write` is given for a session.
LEMMA DocumentFacts ==
    ASSUME NEW s \in Sessions
    PROVE  /\ Document(s) \in Sealed
           /\ Document(s).text.body = s.body
           /\ Document(s).text.key = s.key
           /\ Coherent(s, s.key.pw) => SealedWell(Document(s))
<1>1. Document(s) = [params |-> s.params, salt |-> s.salt,
                     text |-> [key |-> s.key,
                               aad |-> [params |-> s.params, salt |-> s.salt],
                               body |-> s.body]]
  BY DEF Document, Seal, Aad
<1>2. Document(s) \in Sealed
  BY <1>1 DEF Sealed, Sessions
<1>3. ASSUME Coherent(s, s.key.pw) PROVE SealedWell(Document(s))
  BY <1>1, <1>3 DEF SealedWell, Coherent
<1> QED BY <1>1, <1>2, <1>3

\* Which passwords open a file, and what comes out of it.
LEMMA VaultFacts ==
    ASSUME NEW d \in Sealed
    PROVE  /\ d.text.body \in Bodies /\ d.text.key.pw \in Passwords
           /\ d.salt \in Salts /\ d.params \in Costs
           /\ SealedWell(d) =>
                  \A q : Unlockable(d, q) <=> q = d.text.key.pw
<1>1. /\ d.text.body \in Bodies /\ d.text.key.pw \in Passwords
      /\ d.salt \in Salts /\ d.params \in Costs
  BY DEF Sealed, Keys
<1>2. ASSUME SealedWell(d) PROVE \A q : Unlockable(d, q) <=> q = d.text.key.pw
  <2> DEFINE s == Session(d.text.body, d.text.key.pw, d.salt, d.params)
  <2>1. s.body = d.text.body /\ s.salt = d.salt /\ s.params = d.params
    BY DEF Session
  <2>2. Coherent(s, d.text.key.pw)
    BY <1>2, <2>1 DEF Coherent, SealedWell
  <2>3. d = Document(s)
    BY <1>2 DEF SealedWell
  <2> HIDE DEF s
  <2>4. \A q : Unlockable(Document(s), q) <=> q = d.text.key.pw
    BY <2>2, RoundTrip
  <2> QED BY <2>3, <2>4
<1> QED BY <1>1, <1>2

-----------------------------------------------------------------------------
(* The inductive invariants.                                               *)

\* Whatever is or may come to be in the file is sealed under the key that its
\* own header gives, at a cost derive_key accepts.
Wholesome ==
    /\ vault \notin {NoFile, Torn} => SealedWell(vault)
    /\ session # NoSession => Coherent(session, session.key.pw)
    /\ \A t \in Threads :
           /\ arg[t] # NoFile => SealedWell(arg[t])
           /\ pc[t] \in Window =>
                  Made(loaded[t]) /\ loaded[t].key.pw = req[t].pw
           /\ pc[t] \in {"writing", "install"} => Valid(loaded[t].params)

\* Only a file that calls of `write` shared is torn or still written to, and
\* a .tmp has the document of a call.
Mixture ==
    /\ vault = Torn \/ opened # {} => blended
    /\ blended => clash
    /\ \A t \in tmp \cup opened : arg[t] # NoFile

\* Without a file nothing is unlocked and nothing was acknowledged; what
\* create and rotate write is what they will install.
FileFirst ==
    /\ vault = NoFile => session = NoSession /\ acked = EmptyBody
    /\ \A t \in Threads :
           /\ call[t] = "ok" => vault # NoFile
           /\ pc[t] = "install" => vault # NoFile
           /\ pc[t] = "writing" => arg[t] = Document(loaded[t])

\* Without a clash one request writes at a time, ...
SoleWriter ==
    ~clash => \A t, u \in Threads :
                  call[t] # "idle" /\ call[u] # "idle" => t = u

\* ... what it wrote is still there when it looks at the result, ...
CommitKept ==
    ~clash => \A t \in Threads : call[t] = "ok" => vault = arg[t]

\* ... and what a create, unlock or rotate carries is what the file holds.
Carries(t) == loaded[t].body = IF vault = NoFile THEN EmptyBody
                               ELSE vault.text.body
LoadedIsVault ==
    ~clash => \A t \in Threads :
        /\ pc[t] \in Window => Carries(t)
        /\ pc[t] = "install" => loaded[t].key.pw = vault.text.key.pw

\* The file is under a new password that is not yet in force.
RekeyedBy(t) == /\ \/ pc[t] = "install"
                   \/ pc[t] = "writing" /\ call[t] = "ok"
                /\ Op(t) # "unlock"
Rekeyed == \E t \in Threads : RekeyedBy(t)

\* Otherwise file, session and clients agree on the password.
KeysAgree ==
    ~clash /\ vault # NoFile /\ ~Rekeyed =>
        /\ session # NoSession => session.key.pw = vault.text.key.pw
        /\ master # Unknown => vault.text.key.pw = master

-----------------------------------------------------------------------------
(* Requests and edits.                                                     *)

Ops == {"create", "unlock", "rotate", "lock", "set", "delete", "rename",
        "generate", "get", "totp", "list"}

\* What an edit carries, by its kind.
LEMMA EditCallFacts ==
    ASSUME NEW c \in EditCalls
    PROVE  \/ /\ c.op = "set" /\ c.name \in Names
              /\ c.value \in Values \cup {Absent}
              /\ c.meta \in Metas \cup {Absent}
           \/ c.op = "delete" /\ c.name \in Names
           \/ c.op = "rename" /\ c.from \in Names /\ c.to \in Names
           \/ c.op = "generate" /\ c.name \in Names /\ c.value \in Values
<1>1. CASE c \in [op : {"set"}, name : Names, value : Values \cup {Absent},
                  meta : Metas \cup {Absent}, wait : BOOLEAN]
  BY <1>1
<1>2. CASE c \in [op : {"delete"}, name : Names, wait : BOOLEAN]
  BY <1>2
<1>3. CASE c \in [op : {"rename"}, from : Names, to : Names, wait : BOOLEAN]
  BY <1>3
<1>4. CASE c \in [op : {"generate"}, name : Names, value : Values, wait : {TRUE}]
  BY <1>4
<1> QED BY <1>1, <1>2, <1>3, <1>4 DEF EditCalls

\* What a request carries, by its kind.
LEMMA CallFacts ==
    ASSUME NEW c \in Calls
    PROVE  /\ c.op \in Ops
           /\ c.op \in {"create", "unlock", "rotate"} => c.pw \in Passwords
           /\ Touched(c) \subseteq Names
<1>1. c \in AllCalls
  BY CallsAssumption
<1>2. CASE c \in LifeCalls
  <2>1. CASE c \in [op : {"create", "unlock"}, pw : Passwords]
    BY <2>1 DEF Ops, Touched
  <2>2. CASE c \in [op : {"rotate"}, old : Passwords, pw : Passwords]
    BY <2>2 DEF Ops, Touched
  <2>3. CASE c \in [op : {"lock"}]
    BY <2>3 DEF Ops, Touched
  <2> QED BY <1>2, <2>1, <2>2, <2>3 DEF LifeCalls
<1>3. CASE c \in EditCalls
  BY <1>3, EditCallFacts DEF Ops, Touched
<1>4. CASE c \in ReadCalls
  <2>1. c.op \in {"get", "totp", "list"}
    BY <1>4 DEF ReadCalls
  <2> QED BY <2>1 DEF Ops, Touched
<1> QED BY <1>1, <1>2, <1>3, <1>4 DEF AllCalls

\* A set and a generate leave an entry, and only the one they name; they keep
\* the part they were not given.
LEMMA UpsertFacts ==
    ASSUME NEW b \in Bodies, NEW n \in Names, NEW v \in Values \cup {Absent},
           NEW m \in Metas \cup {Absent}, b[n] # NoEntry \/ v # Absent
    PROVE  /\ Upsert(b, n, v, m) \in Bodies
           /\ \A k \in Names \ {n} : Upsert(b, n, v, m)[k] = b[k]
           /\ b[n] # NoEntry =>
                  /\ v = Absent => Upsert(b, n, v, m)[n].value = b[n].value
                  /\ m = Absent => Upsert(b, n, v, m)[n].meta = b[n].meta
<1> DEFINE e == IF b[n] = NoEntry
                THEN [value |-> v, meta |-> Keep(m, NoMeta)]
                ELSE [value |-> Keep(v, b[n].value),
                      meta |-> Keep(m, b[n].meta)]
<1>1. /\ e \in Entries
      /\ b[n] # NoEntry =>
             /\ v = Absent => e.value = b[n].value
             /\ m = Absent => e.meta = b[n].meta
  BY AbsentAssumption DEF Bodies, Entries, Keep
<1>2. Upsert(b, n, v, m) = [b EXCEPT ![n] = e]
  BY DEF Upsert
<1> HIDE DEF e
<1> QED BY <1>1, <1>2 DEF Bodies

\* An edit that is accepted leaves a body, touches only what it names, and
\* loses only what it is asked to.
LEMMA EditFacts ==
    ASSUME NEW c \in EditCalls, NEW b \in Bodies, EditOk(c, b)
    PROVE  /\ Edited(c, b) \in Bodies
           /\ \A n \in Names \ Touched(c) : Edited(c, b)[n] = b[n]
           /\ LosesOnly(c, b, Edited(c, b))
<1>1. CASE c.op = "set" /\ c.name \in Names
           /\ c.value \in Values \cup {Absent} /\ c.meta \in Metas \cup {Absent}
  <2>1. b[c.name] # NoEntry \/ c.value # Absent
    BY <1>1 DEF EditOk
  <2>2. Edited(c, b) = Upsert(b, c.name, c.value, c.meta)
    BY <1>1 DEF Edited
  <2>3. Touched(c) = {c.name}
    BY <1>1 DEF Touched
  <2> QED BY <1>1, <2>1, <2>2, <2>3, UpsertFacts DEF LosesOnly
<1>2. CASE c.op = "delete" /\ c.name \in Names
  <2>1. Edited(c, b) = [b EXCEPT ![c.name] = NoEntry]
    BY <1>2 DEF Edited
  <2>2. Touched(c) = {c.name}
    BY <1>2 DEF Touched
  <2> QED BY <1>2, <2>1, <2>2 DEF Bodies, LosesOnly
<1>3. CASE c.op = "rename" /\ c.from \in Names /\ c.to \in Names
  <2>1. b[c.to] = NoEntry /\ b[c.from] # NoEntry
    BY <1>3 DEF EditOk
  <2>2. Edited(c, b) = [b EXCEPT ![c.from] = NoEntry, ![c.to] = b[c.from]]
    BY <1>3 DEF Edited
  <2>3. Touched(c) = {c.from, c.to}
    BY <1>3 DEF Touched
  <2> QED BY <1>3, <2>1, <2>2, <2>3 DEF Bodies, LosesOnly
<1>4. CASE c.op = "generate" /\ c.name \in Names /\ c.value \in Values
  <2>1. Edited(c, b) = Upsert(b, c.name, c.value, Absent)
    BY <1>4 DEF Edited
  <2>2. Touched(c) = {c.name} /\ c.value # Absent
    BY <1>4, AbsentAssumption DEF Touched
  <2> QED BY <1>4, <2>1, <2>2, UpsertFacts DEF LosesOnly
<1> QED BY <1>1, <1>2, <1>3, <1>4, EditCallFacts

\* Which requests come by a label.
LEMMA PathFacts ==
    ASSUME NEW c \in Calls
    PROVE  /\ Path(c) \subseteq Labels /\ "idle" \notin Path(c)
           /\ "read" \in Path(c) => c.op \in {"unlock", "rotate"}
           /\ "derive" \in Path(c) =>
                  c.op \in {"create", "rotate"} /\ "writing" \in Path(c)
           /\ "writing" \in Path(c) =>
                  c.op \in {"create", "rotate"} /\ "install" \in Path(c)
           /\ "install" \in Path(c) =>
                  c.op \in {"create", "unlock", "rotate"} /\ "reset" \in Path(c)
           /\ c.op = "create" => {"exists", "derive"} \subseteq Path(c)
           /\ c.op = "unlock" => {"read", "backoff", "install"} \subseteq Path(c)
           /\ c.op = "rotate" => {"read", "derive"} \subseteq Path(c)
           /\ c.op = "lock" => "lock" \in Path(c)
           /\ c.op \notin {"create", "unlock", "rotate", "lock"} =>
                  {"check", "parked", "access"} \subseteq Path(c)
           /\ c.op \in {"set", "delete", "rename", "generate"} <=>
                  "saving" \in Path(c)
           /\ "exists" \in Path(c) => c.op = "create"
           /\ "check" \in Path(c) => {"parked", "access"} \subseteq Path(c)
           /\ "parked" \in Path(c) => "access" \in Path(c)
<1>1. c.op \in Ops
  BY CallFacts
<1> QED BY <1>1 DEF Ops, Path, Labels

\* What an edit leaves in memory, and hands to `write`: the body edited, the
\* key, salt and cost untouched.
LEMMA EditSession ==
    ASSUME TypeOK, NEW t \in Threads, Edit(t)
    PROVE  /\ req[t] \in Calls /\ req[t] \in EditCalls
           /\ session \in Sessions /\ session' \in Sessions
           /\ session'.body = Edited(req[t], session.body)
           /\ session'.key = session.key /\ session'.salt = session.salt
           /\ session'.params = session.params
           /\ Document(session') \in Sealed
<1>1. /\ req[t] \in Calls /\ req[t] \in EditCalls
      /\ session \in Sessions
  BY DEF Edit, TypeOK, Placed
<1>2. /\ session' \in Sessions
      /\ session'.body = Edited(req[t], session.body)
      /\ session'.key = session.key /\ session'.salt = session.salt
      /\ session'.params = session.params
  BY <1>1, EditFacts DEF Edit, Sessions
<1> QED BY <1>1, <1>2, DocumentFacts

-----------------------------------------------------------------------------
(* Type correctness.                                                       *)

LEMMA TypeInit == Init => TypeOK
<1> SUFFICES ASSUME Init PROVE TypeOK
  OBVIOUS
<1>1. vault \in Sealed \cup {NoFile}
  BY SessionFacts, DocumentFacts DEF Init
<1>2. acked \in Bodies /\ master \in Passwords \cup {Unknown}
  BY <1>1, VaultFacts, AbsentAssumption DEF Init, Bodies, EmptyBody
<1>3. ASSUME NEW t \in Threads PROVE Placed(t)
  BY AbsentAssumption DEF Init, Placed, Window
<1>4. failCount \in 0..FailCap /\ sent \in 0..MaxRequests
  BY BoundAssumption DEF Init, FailCap
<1> QED BY <1>1, <1>2, <1>3, <1>4 DEF Init, TypeOK, Labels

LEMMA TypeStep == TypeOK /\ [Next]_vars => TypeOK'
<1> SUFFICES ASSUME TypeOK, [Next]_vars PROVE TypeOK'
  OBVIOUS
<1> USE AbsentAssumption DEF TypeOK, Placed, Goto, Done, Window, Labels
<1>1. ASSUME NEW t \in Threads, NEW c \in Calls, Submit(t, c) PROVE TypeOK'
  <2> DEFINE l == CASE c.op = "create" -> "exists"
                    [] c.op \in {"unlock", "rotate"} -> "read"
                    [] c.op = "lock" -> "lock"
                    [] OTHER -> "check"
  <2>1. l \in Path(c) /\ l \in {"exists", "read", "lock", "check"}
    BY CallFacts, PathFacts DEF Ops
  <2>2. pc' = [pc EXCEPT ![t] = l]
    BY <1>1 DEF Submit
  <2> HIDE DEF l
  <2>3. sent' \in 0..MaxRequests
    BY <1>1, BoundAssumption DEF Submit
  <2> QED BY <1>1, <2>1, <2>2, <2>3
        DEF Submit, serverVars, fileVars, history
<1>2. ASSUME NEW t \in Threads, CreateExists(t) PROVE TypeOK'
  <2>1. CASE vault # NoFile
    BY <1>2, <2>1 DEF CreateExists, fileVars, history
  <2>2. CASE vault = NoFile
    <3>1. req[t] \in Calls /\ req[t].op = "create"
      BY <1>2, PathFacts DEF CreateExists
    <3>2. PICK s \in Salts :
              loaded' = [loaded EXCEPT
                            ![t] = Session(EmptyBody, req[t].pw, s, Kdf)]
      BY <1>2, <2>2 DEF CreateExists
    <3>3. EmptyBody \in Bodies
      BY DEF EmptyBody, Bodies
    <3>4. Session(EmptyBody, req[t].pw, s, Kdf) \in Sessions
      BY <3>1, <3>3, CallFacts, SessionFacts, CostAssumption
    <3> QED BY <1>2, <2>2, <3>1, <3>2, <3>4, PathFacts
          DEF CreateExists, fileVars, history
  <2> QED BY <2>1, <2>2
<1>3. ASSUME NEW t \in Threads, UnlockRead(t) PROVE TypeOK'
  <2>1. req[t] \in Calls /\ req[t].op = "unlock" /\ vault \in Sealed
    BY <1>3 DEF UnlockRead, Op, OpensWith
  <2>2. Unlocked(vault, req[t].pw) \in Sessions
    BY <2>1, CallFacts, VaultFacts, SessionFacts DEF Unlocked
  <2> QED BY <1>3, <2>1, <2>2, PathFacts DEF UnlockRead, fileVars, history
<1>4. ASSUME NEW t \in Threads, UnlockFails(t) PROVE TypeOK'
  <2>1. req[t] \in Calls /\ req[t].op = "unlock"
    BY <1>4 DEF UnlockFails, Op
  <2>2. failCount' \in 0..FailCap
    BY <1>4 DEF UnlockFails, FailCap
  <2> QED BY <1>4, <2>1, <2>2, PathFacts DEF UnlockFails, fileVars, history
<1>5. ASSUME NEW t \in Threads, RotateRead(t) PROVE TypeOK'
  <2>1. req[t] \in Calls /\ req[t].op = "rotate"
    BY <1>5 DEF RotateRead, Rotate, Op
  <2>2. PICK s \in Salts :
            Rotate(t, Session(vault.text.body, req[t].pw, s, Kdf))
    BY <1>5 DEF RotateRead
  <2>3. CASE OpensWith(req[t].old)
    <3>1. vault \in Sealed
      BY <2>3 DEF OpensWith
    <3>2. Session(vault.text.body, req[t].pw, s, Kdf) \in Sessions
      BY <2>1, <3>1, CallFacts, VaultFacts, SessionFacts, CostAssumption
    <3> QED BY <2>1, <2>2, <2>3, <3>2, PathFacts DEF Rotate, fileVars, history
  <2>4. CASE ~OpensWith(req[t].old)
    BY <2>2, <2>4 DEF Rotate, fileVars, history
  <2> QED BY <2>3, <2>4
<1>6. ASSUME NEW t \in Threads, WriteLoaded(t) PROVE TypeOK'
  <2>1. Document(loaded[t]) \in Sealed
    BY <1>6, DocumentFacts DEF WriteLoaded
  <2> QED BY <1>6, <2>1, PathFacts DEF WriteLoaded, Write, AV!Begin, serverVars
<1>7. ASSUME NEW t \in Threads, Commit(t) PROVE TypeOK'
  <2>1. arg[t] \in Sealed
    BY <1>7 DEF Commit, AV!Commit
  <2> QED BY <1>7, <2>1 DEF Commit, AV!Commit, serverVars
<1>25. ASSUME NEW t \in Threads, CommitShared(t) PROVE TypeOK'
  <2>1. PICK who \in SUBSET tmp :
            vault' \in Blends(who) /\ tmp' = tmp \ who /\ opened' = who \ {t}
    BY <1>25 DEF CommitShared
  <2>2. vault' \in Sealed \cup {NoFile, Torn}
    BY <2>1 DEF Blends
  <2> QED BY <1>25, <2>1, <2>2 DEF CommitShared, serverVars
<1>26. ASSUME NEW t \in Threads, Scribble(t) PROVE TypeOK'
  BY <1>26 DEF Scribble, Blends, serverVars, tmpVars, history
<1>8. ASSUME NEW t \in Threads, WriteFails(t) PROVE TypeOK'
  BY <1>8 DEF WriteFails, AV!Abort, serverVars, tmpVars, history
<1>9. ASSUME NEW t \in Threads, Written(t) PROVE TypeOK'
  BY <1>9, PathFacts DEF Written, AV!Return, tmpVars, history
<1>10. ASSUME NEW t \in Threads, Install(t) PROVE TypeOK'
  <2>1. req[t] \in Calls /\ req[t].op \in {"create", "unlock", "rotate"}
    BY <1>10, PathFacts DEF Install
  <2>2. master' \in Passwords \cup {Unknown}
    BY <1>10, <2>1, CallFacts DEF Install
  <2> QED BY <1>10, <2>1, <2>2, PathFacts DEF Install, fileVars
<1>11. ASSUME NEW t \in Threads, Reset(t) PROVE TypeOK'
  <2>1. failCount' \in 0..FailCap
    BY <1>11 DEF Reset, FailCap
  <2> QED BY <1>11, <2>1 DEF Reset, fileVars, history
<1>12. ASSUME NEW t \in Threads, BackoffEnds(t) PROVE TypeOK'
  BY <1>12, PathFacts DEF BackoffEnds, serverVars, fileVars, history
<1>13. ASSUME NEW t \in Threads, DeriveFails(t) PROVE TypeOK'
  BY <1>13, PathFacts DEF DeriveFails, serverVars, fileVars, history
<1>14. ASSUME NEW t \in Threads, Lock(t) PROVE TypeOK'
  BY <1>14, PathFacts DEF Lock, serverVars, fileVars, history
<1>15. ASSUME NEW t \in Threads, Check(t) PROVE TypeOK'
  BY <1>15, PathFacts DEF Check, serverVars, fileVars, history
<1>16. ASSUME NEW t \in Threads, Unpark(t) PROVE TypeOK'
  BY <1>16, PathFacts DEF Unpark, serverVars, fileVars, history
<1>17. ASSUME NEW t \in Threads, GiveUp(t) PROVE TypeOK'
  BY <1>17, PathFacts DEF GiveUp, serverVars, fileVars, history
<1>18. ASSUME NEW t \in Threads, Read(t) PROVE TypeOK'
  BY <1>18, PathFacts DEF Read, serverVars, fileVars, history
<1>19. ASSUME NEW t \in Threads, EditRefused(t) PROVE TypeOK'
  BY <1>19, PathFacts DEF EditRefused, serverVars, fileVars, history
<1>20. ASSUME NEW t \in Threads, Edit(t) PROVE TypeOK'
  <2>1. "saving" \in Path(req[t])
    BY <1>20, EditSession, EditCallFacts, PathFacts
  <2> QED BY <1>20, <2>1, EditSession DEF Edit, Write, AV!Begin
<1>21. ASSUME NEW t \in Threads, Saved(t) PROVE TypeOK'
  <2>1. req[t] \in Calls /\ Touched(req[t]) \subseteq Names
    BY <1>21, CallFacts DEF Saved
  <2>2. arg[t].text.body \in Bodies
    BY <1>21, VaultFacts DEF Saved
  <2>3. acked' \in Bodies /\ unsure' \subseteq Names
    BY <1>21, <2>1, <2>2 DEF Saved, Bodies
  <2> QED BY <1>21, <2>3 DEF Saved, AV!Return, tmpVars
<1>22. CASE AutoLock
  BY <1>22 DEF AutoLock, fileVars, history
<1>23. CASE Crash
  <2>1. Saving \subseteq Names
    BY CallFacts DEF Saving
  <2>2. failCount' \in 0..FailCap
    BY <1>23 DEF Crash, FailCap
  <2> QED BY <1>23, <2>1, <2>2 DEF Crash, AV!Crash
<1>24. CASE UNCHANGED vars
  BY <1>24 DEF vars
<1> QED BY <1>1, <1>2, <1>3, <1>4, <1>5, <1>6, <1>7, <1>8, <1>9, <1>10,
      <1>11, <1>12, <1>13, <1>14, <1>15, <1>16, <1>17, <1>18, <1>19, <1>20,
      <1>21, <1>22, <1>23, <1>24, <1>25, <1>26 DEF Next

-----------------------------------------------------------------------------
(* The kinds of steps.                                                     *)

\* Outside the file window and outside a save.
Plain == Labels \ (Window \cup {"saving"})

\* Threads move on outside windows and saves.
Moves == \A u \in Threads :
    \/ pc'[u] = pc[u] /\ req'[u] = req[u]
    \/ pc[u] \in Plain /\ pc'[u] \in Plain

\* Requests come and go, wait, read, are refused or fail.
Quiet ==
    /\ Moves
    /\ UNCHANGED <<session, owner, fileVars, loaded, history>>

\* A lock, by a request or by the timer.
Locks ==
    /\ Moves
    /\ owner = NoOne
    /\ session' = NoSession
    /\ UNCHANGED <<owner, fileVars, loaded, history>>

\* A create, unlock or rotate has looked at the file and carries on with what
\* it found there.
Loads(t) ==
    /\ pc[t] \in Plain \ {"idle"}
    /\ Op(t) \in {"create", "unlock", "rotate"}
    /\ vault # Torn
    /\ \E s \in Salts, k \in Costs :
           /\ loaded' = [loaded EXCEPT ![t] =
                  Session(IF vault = NoFile THEN EmptyBody ELSE vault.text.body,
                          req[t].pw, s, k)]
           /\ \/ Goto(t, "derive")
              \/ Goto(t, "install") /\ OpensWith(req[t].pw) /\ Valid(k)
    /\ UNCHANGED <<session, owner, fileVars, req, history>>

\* Calls of `write` that share their .tmp change the file.
Blurs(t) == CommitShared(t) \/ Scribble(t)

\* Every step is one of these.
LEMMA StepKinds ==
    ASSUME TypeOK, [Next]_vars
    PROVE  \/ Quiet
           \/ Locks
           \/ \E t \in Threads :
                  \/ Loads(t) \/ DeriveFails(t) \/ WriteLoaded(t) \/ Commit(t)
                  \/ Blurs(t) \/ WriteFails(t) \/ Written(t) \/ Install(t)
                  \/ Edit(t) \/ Saved(t)
           \/ Crash
<1> USE DEF TypeOK, Goto, Done, Plain, Window, Labels, Moves
<1>1. ASSUME NEW t \in Threads, NEW c \in Calls, Submit(t, c) PROVE Quiet
  <2>1. pc'[t] \in {"exists", "read", "lock", "check"}
    BY <1>1 DEF Submit
  <2> QED BY <1>1, <2>1 DEF Submit, Quiet, serverVars
<1>2. ASSUME NEW t \in Threads, CreateExists(t) PROVE Quiet \/ Loads(t)
  <2>1. CASE vault # NoFile
    BY <1>2, <2>1 DEF CreateExists, Quiet
  <2>2. CASE vault = NoFile
    <3>1. Op(t) = "create"
      BY <1>2, PathFacts DEF CreateExists, Placed, Op
    <3> QED BY <1>2, <2>2, <3>1, CostAssumption, AbsentAssumption
          DEF CreateExists, Loads
  <2> QED BY <2>1, <2>2
<1>3. ASSUME NEW t \in Threads, UnlockRead(t) PROVE Loads(t)
  <2>1. /\ vault \in Sealed /\ vault \notin {NoFile, Torn}
        /\ OpensWith(req[t].pw) /\ Valid(vault.params)
    BY <1>3 DEF UnlockRead, OpensWith, Unlockable
  <2> QED BY <1>3, <2>1, VaultFacts DEF UnlockRead, Loads, Unlocked
<1>4. ASSUME NEW t \in Threads, RotateRead(t) PROVE Quiet \/ Loads(t)
  <2>1. PICK s \in Salts :
            Rotate(t, Session(vault.text.body, req[t].pw, s, Kdf))
    BY <1>4 DEF RotateRead
  <2>2. CASE OpensWith(req[t].old)
    <3>1. vault \notin {NoFile, Torn}
      BY <2>2 DEF OpensWith
    <3> QED BY <2>1, <2>2, <3>1, CostAssumption DEF Rotate, Loads
  <2>3. CASE ~OpensWith(req[t].old)
    BY <2>1, <2>3 DEF Rotate, Quiet
  <2> QED BY <2>2, <2>3
<1>5. ASSUME NEW t \in Threads,
             \/ UnlockFails(t) \/ BackoffEnds(t) \/ Reset(t) \/ Check(t)
             \/ Unpark(t) \/ GiveUp(t) \/ Read(t) \/ EditRefused(t)
      PROVE  Quiet
  BY <1>5 DEF UnlockFails, BackoffEnds, Reset, Check, Unpark, GiveUp, Read,
              EditRefused, Quiet, serverVars
<1>6. ASSUME NEW t \in Threads, Lock(t) PROVE Locks
  BY <1>6 DEF Lock, Locks
<1>7. CASE AutoLock
  BY <1>7 DEF AutoLock, Locks
<1>8. CASE UNCHANGED vars
  BY <1>8 DEF vars, Quiet, fileVars, history
<1> QED BY <1>1, <1>2, <1>3, <1>4, <1>5, <1>6, <1>7, <1>8 DEF Next, Blurs

-----------------------------------------------------------------------------
(* What is saved, and what an edit costs.                                  *)

\* The threads' progress, the mutex, the calls of `write` and the sessions
\* being carried always agree.
THEOREM TypeCorrect == Spec => []TypeOK
  BY TypeInit, TypeStep, PTL DEF Spec

LEMMA SaveStep ==
    ASSUME TypeOK, SaveMatchesMemory, [Next]_vars
    PROVE  SaveMatchesMemory'
<1> USE AbsentAssumption DEF TypeOK, Placed, SaveMatchesMemory, Goto, Done
<1>1. CASE Quiet \/ Locks
  BY <1>1 DEF Quiet, Locks, Moves, Plain, fileVars
<1>2. ASSUME NEW t \in Threads,
             \/ Loads(t) \/ DeriveFails(t) \/ WriteLoaded(t) \/ Commit(t)
             \/ Blurs(t) \/ WriteFails(t) \/ Written(t)
      PROVE  SaveMatchesMemory'
  BY <1>2 DEF Loads, DeriveFails, WriteLoaded, Write, Commit, Blurs,
              CommitShared, Scribble, WriteFails, Written, AV!Begin, AV!Commit,
              AV!Abort, AV!Return, serverVars, fileVars
<1>3. ASSUME NEW t \in Threads, Install(t) PROVE SaveMatchesMemory'
  BY <1>3 DEF Install, fileVars
<1>4. ASSUME NEW t \in Threads, Edit(t) PROVE SaveMatchesMemory'
  <2>1. session' # NoSession
    BY <1>4, EditSession
  <2> QED BY <1>4, <2>1 DEF Edit, Write, AV!Begin
<1>5. ASSUME NEW t \in Threads, Saved(t) PROVE SaveMatchesMemory'
  BY <1>5 DEF Saved, AV!Return
<1>6. CASE Crash
  BY <1>6 DEF Crash
<1> QED BY <1>1, <1>2, <1>3, <1>4, <1>5, <1>6, StepKinds

\* `with_session` keeps the guard over `save`: whatever locks, installs and
\* other edits are waiting, what is being written is what is in memory.
THEOREM SavesMemory == Spec => []SaveMatchesMemory
<1>1. Init => SaveMatchesMemory
  BY DEF Init, SaveMatchesMemory
<1> QED BY <1>1, TypeInit, TypeStep, SaveStep, PTL DEF Spec

\* Only an edit takes the mutex for a save.
LEMMA OwnerStep ==
    ASSUME TypeOK, [Next]_vars, NEW t \in Threads, owner # t, owner' = t
    PROVE  Edit(t)
<1> USE AbsentAssumption
<1>1. ~Quiet /\ ~Locks /\ ~Crash
  BY DEF Quiet, Locks, Crash
<1>2. ASSUME NEW u \in Threads PROVE
          /\ ~Loads(u) /\ ~DeriveFails(u) /\ ~WriteLoaded(u) /\ ~Commit(u)
          /\ ~Blurs(u) /\ ~WriteFails(u) /\ ~Written(u) /\ ~Install(u) /\ ~Saved(u)
  BY DEF Loads, DeriveFails, WriteLoaded, Commit, Blurs, CommitShared, Scribble,
         WriteFails, Written, Install, Saved, serverVars
<1>3. ASSUME NEW u \in Threads, Edit(u) PROVE u = t
  BY <1>3 DEF Edit
<1> QED BY <1>1, <1>2, <1>3, StepKinds

\* Whatever was in the session and is not named by an edit, or not given by
\* it, is in the session after it.
THEOREM EditsLoseNothing == Spec => NothingElseLost
<1>1. ASSUME TypeOK, [Next]_vars
      PROVE  [\A t \in Threads : owner # t /\ owner' = t =>
                  LosesOnly(req[t], session.body, session'.body)]_vars
  <2> SUFFICES ASSUME NEW t \in Threads, owner # t, owner' = t
               PROVE  LosesOnly(req[t], session.body, session'.body)
    OBVIOUS
  <2>1. Edit(t)
    BY <1>1, OwnerStep
  <2> QED BY <1>1, <2>1, EditSession, EditFacts DEF Edit, Sessions
<1> QED BY <1>1, TypeCorrect, PTL DEF Spec, NothingElseLost

-----------------------------------------------------------------------------
(* The file always opens.                                                  *)

\* What a create, unlock or rotate carries once it has looked at the file.
LEMMA LoadsFacts ==
    ASSUME TypeOK, NEW t \in Threads, Loads(t)
    PROVE  /\ req[t] \in Calls /\ Op(t) \in {"create", "unlock", "rotate"}
           /\ loaded'[t] \in Sessions
           /\ Made(loaded'[t])
           /\ loaded'[t].key.pw = req[t].pw
           /\ loaded'[t].body = IF vault = NoFile THEN EmptyBody
                                ELSE vault.text.body
           /\ \A u \in Threads \ {t} :
                  loaded'[u] = loaded[u] /\ pc'[u] = pc[u]
           /\ \/ pc'[t] = "derive"
              \/ /\ pc'[t] = "install"
                 /\ OpensWith(req[t].pw)
                 /\ Valid(loaded'[t].params)
           /\ vault # Torn
           /\ UNCHANGED <<session, owner, vault, call, arg, tmp, opened, req>>
           /\ UNCHANGED <<acked, unsure, master, clash, blended>>
<1> DEFINE b == IF vault = NoFile THEN EmptyBody ELSE vault.text.body
<1>1. b \in Bodies
  BY VaultFacts DEF TypeOK, Loads, EmptyBody, Bodies
<1>2. req[t] \in Calls /\ req[t].pw \in Passwords
  BY CallFacts DEF TypeOK, Placed, Loads, Op
<1>3. PICK s \in Salts, k \in Costs :
          /\ loaded' = [loaded EXCEPT ![t] = Session(b, req[t].pw, s, k)]
          /\ \/ Goto(t, "derive")
             \/ Goto(t, "install") /\ OpensWith(req[t].pw) /\ Valid(k)
  BY DEF Loads
<1> HIDE DEF b
<1>4. loaded'[t] = Session(b, req[t].pw, s, k)
  BY <1>3 DEF TypeOK
<1>5. /\ loaded'[t] \in Sessions /\ Made(loaded'[t])
      /\ loaded'[t].key.pw = req[t].pw /\ loaded'[t].body = b
      /\ loaded'[t].params = k
  BY <1>1, <1>2, <1>4, SessionFacts
<1>6. /\ \A u \in Threads \ {t} : loaded'[u] = loaded[u] /\ pc'[u] = pc[u]
      /\ \/ pc'[t] = "derive"
         \/ pc'[t] = "install" /\ OpensWith(req[t].pw) /\ Valid(k)
  BY <1>3 DEF TypeOK, Goto
<1> QED BY <1>2, <1>5, <1>6 DEF b, Loads, fileVars, history

\* A .tmp that was shared becomes, or is, the vault.
LEMMA BlursFacts ==
    ASSUME TypeOK, Mixture, NEW t \in Threads, Blurs(t)
    PROVE  /\ vault' # NoFile
           /\ \/ vault' = Torn
              \/ \E u \in Threads : arg[u] # NoFile /\ vault' = arg[u]
           /\ \A u \in Threads :
                  call'[u] # call[u] => call[u] = "busy" /\ call'[u] = "ok"
           /\ tmp' \cup opened' \subseteq tmp \cup opened
           /\ clash' /\ blended'
           /\ UNCHANGED <<session, owner, arg, pc, req, loaded, acked, unsure,
                          master>>
<1> USE AbsentAssumption DEF TypeOK, Mixture, Blends, serverVars, tmpVars, history
<1>1. CASE CommitShared(t)
  <2>1. PICK who \in SUBSET tmp :
            vault' \in Blends(who) /\ tmp' = tmp \ who /\ opened' = who \ {t}
    BY <1>1 DEF CommitShared
  <2>2. /\ clash' /\ blended' /\ call' = [call EXCEPT ![t] = "ok"]
        /\ call[t] = "busy"
        /\ UNCHANGED <<session, owner, arg, pc, req, loaded, acked, unsure,
                       master>>
    BY <1>1 DEF CommitShared
  <2>3. \A u \in who : u \in Threads /\ arg[u] # NoFile
    BY <2>1
  <2>4. vault' = Torn \/ \E u \in Threads : arg[u] # NoFile /\ vault' = arg[u]
    BY <2>1, <2>3
  <2>5. tmp' \cup opened' \subseteq tmp \cup opened
    BY <2>1
  <2> QED BY <2>2, <2>4, <2>5
<1>2. CASE Scribble(t)
  BY <1>2 DEF Scribble
<1> QED BY <1>1, <1>2 DEF Blurs

LEMMA MixtureInit == ASSUME Init PROVE Mixture
<1>1. vault # Torn
  BY SessionFacts, DocumentFacts, AbsentAssumption DEF Init
<1> QED BY <1>1 DEF Init, Mixture

LEMMA MixtureStep == ASSUME TypeOK, Mixture, [Next]_vars PROVE Mixture'
<1> USE AbsentAssumption DEF TypeOK, Placed, Mixture
<1>1. CASE Quiet \/ Locks
  BY <1>1 DEF Quiet, Locks, fileVars, history
<1>2. ASSUME NEW t \in Threads, Loads(t) \/ DeriveFails(t) \/ Install(t)
      PROVE  Mixture'
  BY <1>2 DEF Loads, DeriveFails, Install, fileVars, history
<1>3. ASSUME NEW t \in Threads, WriteLoaded(t) PROVE Mixture'
  <2>1. Document(loaded[t]) \in Sealed
    BY <1>3, DocumentFacts DEF WriteLoaded, Window
  <2> QED BY <1>3, <2>1 DEF WriteLoaded, Write, AV!Begin
<1>4. ASSUME NEW t \in Threads, Edit(t) PROVE Mixture'
  <2>1. /\ UNCHANGED <<vault, blended>> /\ (clash => clash')
        /\ opened' = opened \ {t} /\ tmp' \subseteq tmp \cup {t}
        /\ arg' = [arg EXCEPT ![t] = Document(session')]
    BY <1>4 DEF Edit, Write, AV!Begin
  <2>2. Document(session') \in Sealed
    BY <1>4, EditSession
  <2> QED BY <2>1, <2>2
<1>5. ASSUME NEW t \in Threads, Commit(t) PROVE Mixture'
  <2>1. arg[t] \in Sealed
    BY <1>5 DEF Commit, AV!Commit
  <2> QED BY <1>5, <2>1 DEF Commit, AV!Commit
<1>6. ASSUME NEW t \in Threads, Blurs(t) PROVE Mixture'
  BY <1>6, BlursFacts
<1>7. ASSUME NEW t \in Threads, WriteFails(t) \/ Written(t) \/ Saved(t)
      PROVE  Mixture'
  BY <1>7
  DEF WriteFails, Written, Saved, AV!Abort, AV!Return, tmpVars, history
<1>8. CASE Crash
  BY <1>8 DEF Crash, AV!Crash
<1> QED BY <1>1, <1>2, <1>3, <1>4, <1>5, <1>6, <1>7, <1>8, StepKinds

LEMMA WholesomeInit ==
    ASSUME Init PROVE Wholesome
<1>1. ASSUME vault # NoFile PROVE SealedWell(vault)
  <2>1. PICK b \in Bodies, p \in Passwords, s \in Salts,
             k \in {c \in Costs : Valid(c)} :
            vault = Document(Session(b, p, s, k))
    BY <1>1 DEF Init
  <2>2. /\ Session(b, p, s, k) \in Sessions /\ Made(Session(b, p, s, k))
        /\ Valid(Session(b, p, s, k).params)
    BY SessionFacts
  <2> QED BY <2>1, <2>2, DocumentFacts DEF Made, Coherent
<1> QED BY <1>1 DEF Init, Wholesome, Window

LEMMA WholesomeStep ==
    ASSUME TypeOK, Mixture, Wholesome, [Next]_vars
    PROVE  Wholesome'
<1> USE AbsentAssumption DEF TypeOK, Placed, Wholesome, Goto, Done, Window
<1>1. CASE Quiet \/ Locks
  BY <1>1 DEF Quiet, Locks, Moves, Plain, fileVars
<1>2. ASSUME NEW t \in Threads, Loads(t) PROVE Wholesome'
  BY <1>2, LoadsFacts
<1>3. ASSUME NEW t \in Threads, DeriveFails(t) PROVE Wholesome'
  BY <1>3 DEF DeriveFails, fileVars
<1>4. ASSUME NEW t \in Threads, WriteLoaded(t) PROVE Wholesome'
  <2>1. SealedWell(Document(loaded[t]))
    BY <1>4, DocumentFacts DEF WriteLoaded, Made, Coherent
  <2> QED BY <1>4, <2>1 DEF WriteLoaded, Write, AV!Begin, serverVars
<1>5. ASSUME NEW t \in Threads, Commit(t) \/ WriteFails(t) PROVE Wholesome'
  BY <1>5 DEF Commit, WriteFails, AV!Commit, AV!Abort, serverVars
<1>11. ASSUME NEW t \in Threads, Blurs(t) PROVE Wholesome'
  <2>1. /\ vault' # Torn => SealedWell(vault')
        /\ UNCHANGED <<session, arg, pc, req, loaded>>
    BY <1>11, BlursFacts
  <2> QED BY <2>1
<1>6. ASSUME NEW t \in Threads, Written(t) PROVE Wholesome'
  BY <1>6 DEF Written, AV!Return
<1>7. ASSUME NEW t \in Threads, Install(t) PROVE Wholesome'
  <2>1. Coherent(loaded[t], loaded[t].key.pw)
    BY <1>7 DEF Install, Made, Coherent
  <2> QED BY <1>7, <2>1 DEF Install, fileVars
<1>8. ASSUME NEW t \in Threads, Edit(t) PROVE Wholesome'
  <2>1. session # NoSession
    BY <1>8 DEF Edit
  <2>2. Coherent(session', session'.key.pw)
    BY <1>8, <2>1, EditSession DEF Coherent, Session, Sessions
  <2>3. SealedWell(Document(session'))
    BY <1>8, <2>2, EditSession, DocumentFacts
  <2> QED BY <1>8, <2>2, <2>3 DEF Edit, Write, AV!Begin
<1>9. ASSUME NEW t \in Threads, Saved(t) PROVE Wholesome'
  BY <1>9 DEF Saved, AV!Return
<1>10. CASE Crash
  BY <1>10 DEF Crash, AV!Crash
<1> QED BY <1>1, <1>2, <1>3, <1>4, <1>5, <1>6, <1>7, <1>8, <1>9, <1>10, <1>11,
           StepKinds

\* However creates, unlocks, rotates, saves, failures and crashes interleave,
\* clash or not, and whatever cost the agent is configured with: the file
\* opens with a password, unless it is a .tmp that calls of `write` shared.
THEOREM AlwaysOpens == Spec => []NeverSealedShut
<1>1. Init => Mixture /\ Wholesome
  BY MixtureInit, WholesomeInit
<1>2. TypeOK /\ Mixture /\ Wholesome /\ [Next]_vars => Mixture' /\ Wholesome'
  BY MixtureStep, WholesomeStep
<1>3. TypeOK /\ Mixture /\ Wholesome => NeverSealedShut
  BY VaultFacts
  DEF TypeOK, Mixture, Wholesome, NeverSealedShut, OpensWith
<1> QED BY <1>1, <1>2, <1>3, TypeCorrect, PTL DEF Spec

-----------------------------------------------------------------------------
(* One request's window on the file.                                       *)

LEMMA FileFirstStep ==
    ASSUME TypeOK, Mixture, FileFirst, [Next]_vars
    PROVE  FileFirst'
<1> USE AbsentAssumption DEF TypeOK, Placed, FileFirst, Goto, Done, Window
<1>1. CASE Quiet \/ Locks
  BY <1>1 DEF Quiet, Locks, Moves, Plain, fileVars, history
<1>2. ASSUME NEW t \in Threads, Loads(t) PROVE FileFirst'
  <2>1. pc'[t] = "install" => vault # NoFile
    BY <1>2, LoadsFacts DEF OpensWith
  <2> QED BY <1>2, <2>1, LoadsFacts
<1>3. ASSUME NEW t \in Threads, DeriveFails(t) PROVE FileFirst'
  BY <1>3 DEF DeriveFails, fileVars, history
<1>4. ASSUME NEW t \in Threads, WriteLoaded(t) PROVE FileFirst'
  BY <1>4 DEF WriteLoaded, Write, AV!Begin, serverVars
<1>5. ASSUME NEW t \in Threads, Commit(t) \/ WriteFails(t) PROVE FileFirst'
  BY <1>5 DEF Commit, WriteFails, AV!Commit, AV!Abort, serverVars, history
<1>11. ASSUME NEW t \in Threads, Blurs(t) PROVE FileFirst'
  BY <1>11, BlursFacts
<1>6. ASSUME NEW t \in Threads, Written(t) PROVE FileFirst'
  BY <1>6 DEF Written, AV!Return, history
<1>7. ASSUME NEW t \in Threads, Install(t) PROVE FileFirst'
  BY <1>7 DEF Install, fileVars
<1>8. ASSUME NEW t \in Threads, Edit(t) PROVE FileFirst'
  BY <1>8 DEF Edit, Write, AV!Begin
<1>9. ASSUME NEW t \in Threads, Saved(t) PROVE FileFirst'
  BY <1>9 DEF Saved, AV!Return
<1>10. CASE Crash
  BY <1>10 DEF Crash, AV!Crash
<1> QED BY <1>1, <1>2, <1>3, <1>4, <1>5, <1>6, <1>7, <1>8, <1>9, <1>10, <1>11,
           StepKinds

\* A write into another request's window, or over another write, is a clash.
Windows == SoleWriter /\ CommitKept /\ LoadedIsVault

LEMMA WindowsStep ==
    ASSUME TypeOK, Mixture, Wholesome, FileFirst, Windows, [Next]_vars
    PROVE  Windows'
<1> USE AbsentAssumption
    DEF TypeOK, Placed, Windows, SoleWriter, CommitKept, LoadedIsVault, Carries,
        Goto, Done, Window
<1>1. CASE Quiet \/ Locks
  BY <1>1 DEF Quiet, Locks, Moves, Plain, fileVars, history
<1>2. ASSUME NEW t \in Threads, Loads(t) PROVE Windows'
  <2>1. pc'[t] = "install" => loaded'[t].key.pw = vault.text.key.pw
    BY <1>2, LoadsFacts, VaultFacts DEF Wholesome, OpensWith
  <2> QED BY <1>2, <2>1, LoadsFacts
<1>3. ASSUME NEW t \in Threads, DeriveFails(t) PROVE Windows'
  BY <1>3 DEF DeriveFails, fileVars, history
<1>4. ASSUME NEW t \in Threads, WriteLoaded(t) PROVE Windows'
  <2>1. ~clash' => ~clash /\ \A u \in Threads : call[u] = "idle"
    BY <1>4 DEF WriteLoaded
  <2>2. /\ UNCHANGED <<vault, loaded>>
        /\ pc[t] = "derive" /\ pc'[t] = "writing" /\ call'[t] = "busy"
        /\ \A u \in Threads \ {t} : pc'[u] = pc[u] /\ call'[u] = call[u]
    BY <1>4 DEF WriteLoaded, Write, AV!Begin, serverVars
  <2> QED BY <2>1, <2>2
<1>5. ASSUME NEW t \in Threads, Commit(t) PROVE Windows'
  <2>1. pc[t] = "writing" => vault' # NoFile /\ vault'.text.body = loaded[t].body
    BY <1>5, DocumentFacts DEF Commit, AV!Commit, FileFirst
  <2>2. ~clash' => /\ ~clash
                   /\ \A u \in Threads \ {t} :
                          pc[u] \notin Window /\ call[u] = "idle"
    BY <1>5 DEF Commit, AV!Commit
  <2>3. /\ vault' = arg[t] /\ UNCHANGED <<arg, pc, loaded>>
        /\ \A u \in Threads : call'[u] = IF u = t THEN "ok" ELSE call[u]
        /\ pc[t] \in {"writing", "saving"}
    BY <1>5 DEF Commit, AV!Commit, serverVars
  <2> QED BY <2>1, <2>2, <2>3
<1>12. ASSUME NEW t \in Threads, Blurs(t) PROVE Windows'
  BY <1>12, BlursFacts
<1>6. ASSUME NEW t \in Threads, WriteFails(t) PROVE Windows'
  BY <1>6 DEF WriteFails, AV!Abort, serverVars, history
<1>7. ASSUME NEW t \in Threads, Written(t) PROVE Windows'
  <2>1. ~clash /\ call[t] = "ok" => loaded[t].key.pw = vault.text.key.pw
    BY <1>7, DocumentFacts DEF Written, FileFirst
  <2> QED BY <1>7, <2>1 DEF Written, AV!Return, history
<1>8. ASSUME NEW t \in Threads, Install(t) PROVE Windows'
  BY <1>8 DEF Install, fileVars
<1>9. ASSUME NEW t \in Threads, Edit(t) PROVE Windows'
  <2>1. ~clash' => ~clash /\ \A u \in Threads : call[u] = "idle"
    <3>1. \A u \in Threads : pc[u] # "saving"
      BY <1>9 DEF Edit
    <3>2. ~clash' => ~clash /\ \A u \in Threads : pc[u] # "writing"
      BY <1>9 DEF Edit
    <3> QED BY <3>1, <3>2
  <2>2. /\ UNCHANGED <<vault, loaded>> /\ pc'[t] = "saving" /\ call'[t] = "busy"
        /\ \A u \in Threads \ {t} : pc'[u] = pc[u] /\ call'[u] = call[u]
    BY <1>9 DEF Edit, Write, AV!Begin
  <2> QED BY <2>1, <2>2
<1>10. ASSUME NEW t \in Threads, Saved(t) PROVE Windows'
  BY <1>10 DEF Saved, AV!Return
<1>11. CASE Crash
  BY <1>11 DEF Crash, AV!Crash
<1> QED BY <1>1, <1>2, <1>3, <1>4, <1>5, <1>6, <1>7, <1>8, <1>9, <1>10, <1>11,
           <1>12, StepKinds

-----------------------------------------------------------------------------
(* Acknowledged edits.                                                     *)

\* The names whose outcome is open are those of the one request that saves.
LEMMA SavingNames ==
    ASSUME NEW n
    PROVE  /\ n \in Saving <=>
                  \E t \in Threads : pc[t] = "saving" /\ n \in Touched(req[t])
           /\ n \in Saving' <=>
                  \E t \in Threads : pc'[t] = "saving" /\ n \in Touched(req'[t])
  BY DEF Saving, Touched

Acked ==
    /\ AckedDurable
    /\ AckedVisible

LEMMA AckedStep ==
    ASSUME TypeOK, SaveMatchesMemory, Mixture, FileFirst, Windows, Acked,
           [Next]_vars
    PROVE  Acked'
<1> USE AbsentAssumption
    DEF TypeOK, Placed, Acked, AckedDurable, AckedVisible, InVault, Goto, Done,
        Window
<1>1. CASE Quiet \/ Locks
  <2>1. \A n : n \in Saving' <=> n \in Saving
    BY <1>1, SavingNames DEF Quiet, Locks, Moves, Plain
  <2> QED BY <1>1, <2>1 DEF Quiet, Locks, fileVars, history
<1>2. ASSUME NEW t \in Threads, Loads(t) PROVE Acked'
  <2>1. \A n : n \in Saving' <=> n \in Saving
    BY <1>2, SavingNames, LoadsFacts DEF Loads, Plain
  <2> QED BY <1>2, <2>1, LoadsFacts
<1>3. ASSUME NEW t \in Threads, DeriveFails(t) PROVE Acked'
  <2>1. \A n : n \in Saving' <=> n \in Saving
    BY <1>3, SavingNames DEF DeriveFails
  <2> QED BY <1>3, <2>1 DEF DeriveFails, fileVars, history
<1>4. ASSUME NEW t \in Threads, WriteLoaded(t) PROVE Acked'
  <2>1. \A n : n \in Saving' <=> n \in Saving
    BY <1>4, SavingNames DEF WriteLoaded
  <2> QED BY <1>4, <2>1 DEF WriteLoaded, Write, AV!Begin, serverVars
<1>5. ASSUME NEW t \in Threads, Commit(t) PROVE Acked'
  <2>1. \A n : n \in Saving' <=> n \in Saving
    BY <1>5, SavingNames DEF Commit
  <2>2. /\ vault' = arg[t] /\ UNCHANGED <<session, acked, unsure>>
        /\ pc[t] \in {"writing", "saving"} /\ (~clash' => ~clash)
    BY <1>5 DEF Commit, AV!Commit, serverVars
  <2>3. CASE pc[t] = "saving"
    <3>1. session \in Sessions /\ vault'.text.body = session.body
      BY <2>2, <2>3, DocumentFacts DEF SaveMatchesMemory
    <3> QED BY <2>1, <2>2, <3>1
  <2>4. CASE pc[t] = "writing"
    <3>1. vault'.text.body = loaded[t].body
      BY <2>2, <2>4, DocumentFacts DEF FileFirst
    <3>2. ~clash => loaded[t].body = IF vault = NoFile THEN EmptyBody
                                     ELSE vault.text.body
      BY <2>4 DEF Windows, LoadedIsVault, Carries
    <3> QED BY <2>1, <2>2, <3>1, <3>2 DEF FileFirst
  <2> QED BY <2>2, <2>3, <2>4
<1>12. ASSUME NEW t \in Threads, Blurs(t) PROVE Acked'
  BY <1>12, BlursFacts
<1>6. ASSUME NEW t \in Threads, WriteFails(t) PROVE Acked'
  <2>1. \A n : n \in Saving' <=> n \in Saving
    BY <1>6, SavingNames DEF WriteFails
  <2> QED BY <1>6, <2>1 DEF WriteFails, AV!Abort, serverVars, history
<1>7. ASSUME NEW t \in Threads, Written(t) PROVE Acked'
  <2>1. \A n : n \in Saving' <=> n \in Saving
    BY <1>7, SavingNames DEF Written
  <2> QED BY <1>7, <2>1 DEF Written, AV!Return, history
<1>8. ASSUME NEW t \in Threads, Install(t) PROVE Acked'
  <2>1. \A n : n \in Saving' <=> n \in Saving
    BY <1>8, SavingNames DEF Install
  <2>2. /\ vault # NoFile /\ session' = loaded[t]
        /\ UNCHANGED <<vault, acked, unsure, clash>>
    BY <1>8 DEF Install, FileFirst, fileVars
  <2>3. ~clash => loaded[t].body = vault.text.body
    BY <1>8, <2>2 DEF Install, Windows, LoadedIsVault, Carries
  <2> QED BY <2>1, <2>2, <2>3
<1>9. ASSUME NEW t \in Threads, Edit(t) PROVE Acked'
  <2>1. \A n : n \in Saving' <=> n \in Touched(req[t])
    BY <1>9, SavingNames DEF Edit
  <2>2. \A n : n \notin Saving
    BY <1>9, SavingNames DEF Edit
  <2>3. /\ session # NoSession /\ UNCHANGED <<vault, acked, unsure>>
        /\ (~clash' => ~clash)
    BY <1>9 DEF Edit, Write, AV!Begin
  <2>4. \A n \in Names \ Touched(req[t]) : session'.body[n] = session.body[n]
    BY <1>9, EditSession, EditFacts DEF Edit, Sessions
  <2> QED BY <2>1, <2>2, <2>3, <2>4
<1>10. ASSUME NEW t \in Threads, Saved(t) PROVE Acked'
  <2>1. \A n : n \in Saving <=> n \in Touched(req[t])
    BY <1>10, SavingNames DEF Saved
  <2>2. \A n : n \notin Saving'
    BY <1>10, SavingNames DEF Saved
  <2>3. UNCHANGED <<session, vault, clash>>
    BY <1>10 DEF Saved, AV!Return
  <2>4. CASE call[t] = "ok"
    <3>1. /\ acked' = [n \in Names |-> IF n \in Touched(req[t])
                                       THEN arg[t].text.body[n] ELSE acked[n]]
          /\ unsure' = unsure \ Touched(req[t])
      BY <1>10, <2>4 DEF Saved
    <3>2. arg[t].text.body = session.body
      BY <1>10, DocumentFacts DEF Saved, SaveMatchesMemory
    <3>3. ~clash => vault = arg[t]
      BY <2>4 DEF Windows, CommitKept
    <3> QED BY <2>1, <2>2, <2>3, <3>1, <3>2, <3>3
  <2>5. CASE call[t] = "err"
    <3>1. unsure' = unsure \cup Touched(req[t]) /\ UNCHANGED acked
      BY <1>10, <2>5 DEF Saved
    <3> QED BY <2>1, <2>2, <2>3, <3>1
  <2> QED BY <1>10, <2>4, <2>5 DEF Saved
<1>11. CASE Crash
  <2>1. \A n : n \notin Saving'
    BY <1>11, SavingNames DEF Crash
  <2> QED BY <1>11, <2>1 DEF Crash, AV!Crash
<1> QED BY <1>1, <1>2, <1>3, <1>4, <1>5, <1>6, <1>7, <1>8, <1>9, <1>10, <1>11,
           <1>12, StepKinds

-----------------------------------------------------------------------------
(* The password in force.                                                  *)

LEMMA KeysStep ==
    ASSUME TypeOK, SaveMatchesMemory, Mixture, Wholesome, FileFirst, Windows,
           KeysAgree, [Next]_vars
    PROVE  KeysAgree'
<1> USE AbsentAssumption
    DEF TypeOK, Placed, KeysAgree, Rekeyed, RekeyedBy, Op, Goto, Done, Window
<1>1. CASE Quiet \/ Locks
  BY <1>1 DEF Quiet, Locks, Moves, Plain, fileVars, history
<1>2. ASSUME NEW t \in Threads, Loads(t) PROVE KeysAgree'
  <2>1. /\ UNCHANGED <<session, vault, call, req, master, clash>>
        /\ \A u \in Threads \ {t} : pc'[u] = pc[u]
    BY <1>2, LoadsFacts
  <2>2. pc[t] \notin {"writing", "install"}
    BY <1>2 DEF Loads, Plain
  <2> QED BY <2>1, <2>2
<1>3. ASSUME NEW t \in Threads, DeriveFails(t) PROVE KeysAgree'
  BY <1>3 DEF DeriveFails, fileVars, history
<1>4. ASSUME NEW t \in Threads, WriteLoaded(t) PROVE KeysAgree'
  BY <1>4 DEF WriteLoaded, Write, AV!Begin, serverVars
<1>5. ASSUME NEW t \in Threads, Commit(t) PROVE KeysAgree'
  <2>1. /\ vault' = arg[t] /\ UNCHANGED <<session, pc, req, master>>
        /\ \A u \in Threads : call'[u] = IF u = t THEN "ok" ELSE call[u]
        /\ pc[t] \in {"writing", "saving"} /\ (~clash' => ~clash)
    BY <1>5 DEF Commit, AV!Commit, serverVars
  <2>2. CASE pc[t] = "saving"
    <3>1. session # NoSession /\ vault'.text.key = session.key
      BY <2>1, <2>2, DocumentFacts DEF SaveMatchesMemory
    <3>2. vault # NoFile
      BY <3>1 DEF FileFirst
    <3>3. ~Rekeyed' => ~Rekeyed
      BY <2>1, <2>2
    <3> QED BY <2>1, <3>1, <3>2, <3>3
  <2>3. CASE pc[t] = "writing"
    <3>1. req[t].op # "unlock"
      BY <2>3, PathFacts
    <3>2. Rekeyed'
      BY <2>1, <2>3, <3>1
    <3> QED BY <3>2
  <2> QED BY <2>1, <2>2, <2>3
<1>12. ASSUME NEW t \in Threads, Blurs(t) PROVE KeysAgree'
  BY <1>12, BlursFacts
<1>6. ASSUME NEW t \in Threads, WriteFails(t) PROVE KeysAgree'
  BY <1>6 DEF WriteFails, AV!Abort, serverVars, history
<1>7. ASSUME NEW t \in Threads, Written(t) PROVE KeysAgree'
  <2>1. ~Rekeyed' => ~Rekeyed
    BY <1>7 DEF Written, AV!Return
  <2> QED BY <1>7, <2>1 DEF Written, AV!Return, history
<1>8. ASSUME NEW t \in Threads, Install(t) PROVE KeysAgree'
  <2>1. /\ session' = loaded[t] /\ UNCHANGED <<vault, call, req, clash>>
        /\ master' = IF req[t].op = "unlock" THEN master ELSE req[t].pw
        /\ pc[t] = "install" /\ pc'[t] = "reset"
        /\ \A u \in Threads \ {t} : pc'[u] = pc[u]
    BY <1>8 DEF Install, fileVars
  <2>2. ~clash => loaded[t].key.pw = vault.text.key.pw
    BY <2>1 DEF Windows, LoadedIsVault
  <2>3. CASE req[t].op = "unlock"
    <3>1. ~Rekeyed' => ~Rekeyed
      BY <2>1, <2>3
    <3> QED BY <2>1, <2>2, <2>3, <3>1
  <2>4. CASE req[t].op # "unlock"
    <3>1. loaded[t].key.pw = req[t].pw
      BY <2>1 DEF Wholesome
    <3> QED BY <2>1, <2>2, <2>4, <3>1
  <2> QED BY <2>3, <2>4
<1>9. ASSUME NEW t \in Threads, Edit(t) PROVE KeysAgree'
  <2>1. /\ session # NoSession /\ session'.key = session.key
        /\ UNCHANGED <<vault, master, req>> /\ (~clash' => ~clash)
    BY <1>9, EditSession DEF Edit, Write, AV!Begin
  <2>2. ~Rekeyed' => ~Rekeyed
    BY <1>9 DEF Edit, Write, AV!Begin
  <2> QED BY <2>1, <2>2
<1>10. ASSUME NEW t \in Threads, Saved(t) PROVE KeysAgree'
  <2>1. ~Rekeyed' => ~Rekeyed
    BY <1>10 DEF Saved, AV!Return
  <2> QED BY <1>10, <2>1 DEF Saved, AV!Return
<1>11. CASE Crash
  <2>1. UNCHANGED <<vault, clash>> /\ session' = NoSession
    BY <1>11 DEF Crash, AV!Crash
  <2>2. master' # Unknown => ~Rekeyed /\ master' = master
    BY <1>11 DEF Crash
  <2> QED BY <2>1, <2>2
<1> QED BY <1>1, <1>2, <1>3, <1>4, <1>5, <1>6, <1>7, <1>8, <1>9, <1>10, <1>11,
           <1>12, StepKinds

-----------------------------------------------------------------------------
(* What holds as long as nothing clashes.                                  *)

IInv ==
    /\ TypeOK
    /\ SaveMatchesMemory
    /\ Mixture
    /\ Wholesome
    /\ FileFirst
    /\ Windows
    /\ Acked
    /\ KeysAgree

LEMMA Invariance == Spec => []IInv
<1>1. Init => IInv
  <2> SUFFICES ASSUME Init PROVE IInv
    OBVIOUS
  <2>1. TypeOK /\ Mixture /\ Wholesome
    BY TypeInit, MixtureInit, WholesomeInit
  <2>2. SaveMatchesMemory /\ FileFirst /\ Windows
    BY DEF Init, SaveMatchesMemory, FileFirst, Windows, SoleWriter, CommitKept,
           LoadedIsVault, Window
  <2>3. Acked
    <3>1. vault # Torn
      BY <2>1 DEF Init, Mixture
    <3> QED BY <3>1 DEF Init, Acked, AckedDurable, AckedVisible, InVault
  <2>4. KeysAgree
    BY DEF Init, KeysAgree
  <2> QED BY <2>1, <2>2, <2>3, <2>4 DEF IInv
<1>2. IInv /\ [Next]_vars => IInv'
  BY TypeStep, SaveStep, MixtureStep, WholesomeStep, FileFirstStep, WindowsStep, AckedStep,
     KeysStep DEF IInv
<1> QED BY <1>1, <1>2, PTL DEF Spec

\* As long as no write falls into the window between another request's look
\* at the file and its install (server.rs:318-383), an edit answered Ok is in
\* the file, through later edits, failed saves, locks, rotates and crashes.
THEOREM AckedIsDurable == Spec => []AckedDurable
<1>1. IInv => AckedDurable
  BY DEF IInv, Acked
<1> QED BY <1>1, Invariance, PTL

\* Under the same condition whoever reads an unlocked wallet sees it.
THEOREM AckedIsVisible == Spec => []AckedVisible
<1>1. IInv => AckedVisible
  BY DEF IInv, Acked
<1> QED BY <1>1, Invariance, PTL

\* Under the same condition the file opens with the password of the last
\* create or rotate that succeeded and with no other: no save by a session
\* that was open before a rotate brings the old password back.
THEOREM PasswordInForce == Spec => []PasswordCurrent
<1>1. IInv => PasswordCurrent
  <2> SUFFICES ASSUME IInv, ~clash, vault # NoFile, master # Unknown, ~Rekeying,
                      NEW p \in Passwords
               PROVE  OpensWith(p) <=> p = master
    BY DEF PasswordCurrent
  <2>1. ~Rekeyed
    BY DEF Rekeying, Rekeyed, RekeyedBy
  <2>2. vault.text.key.pw = master
    BY <2>1 DEF IInv, KeysAgree
  <2>3. vault \in Sealed /\ vault # Torn /\ SealedWell(vault)
    BY DEF IInv, TypeOK, Mixture, Wholesome
  <2> QED BY <2>2, <2>3, VaultFacts DEF OpensWith
<1> QED BY <1>1, Invariance, PTL
=============================================================================
