------------------------------ MODULE MCAgent ------------------------------
(* Agent on small sets of model values: which requests the clients send.   *)
EXTENDS Agent, TLC
CONSTANTS n1, n2, v1, v2, m1, p1, p2

\* The default cost, and the one of the repository's tests.
Default == Cost(64 * 1024, 3, 4)
Fast == Cost(32, 1, 1)
Both == {Default, Fast}

Set(n, v, m, w) ==
    [op |-> "set", name |-> n, value |-> v, meta |-> m, wait |-> w]
RotateTo(o, p) == [op |-> "rotate", old |-> o, pw |-> p]
Unlock(p) == [op |-> "unlock", pw |-> p]
Create(p) == [op |-> "create", pw |-> p]
LockCall == [op |-> "lock"]

\* Every kind of request: every way to replace the session or the key, and
\* every edit of a name, over a wallet of two.
EveryKind ==
    {Create(p1), Unlock(p1), Unlock(p2), RotateTo(p1, p2), LockCall,
     Set(n1, v2, m1, FALSE), Set(n1, Absent, m1, TRUE),
     [op |-> "delete", name |-> n1, wait |-> TRUE],
     [op |-> "rename", from |-> n1, to |-> n2, wait |-> TRUE],
     [op |-> "generate", name |-> n1, value |-> v1, wait |-> TRUE],
     [op |-> "get", name |-> n1, wait |-> FALSE]}

RotateAndSet == {Unlock(p1), RotateTo(p1, p2), Set(n1, v2, Absent, TRUE)}

\* Bound: the vault of an earlier life opens with p1 (p2 comes by a rotate),
\* was written at another cost than this agent's, and has nothing, an entry
\* under n1, or one under both (v2 comes by a set; n2 is only ever the target
\* of a rename).
SmallVault(v) ==
    v # NoFile =>
        /\ v.text.key.pw = p1 /\ v.salt = 1 /\ v.params = Fast
        /\ \A n \in Names : v.text.body[n] # NoEntry =>
               /\ v.text.body[n] = [value |-> v1,
                                    meta |-> IF n = n1 THEN m1 ELSE NoMeta]
               /\ v.text.body[n1] # NoEntry
SmallInit == Init /\ SmallVault(vault)
SmallSpec == SmallInit /\ [][Next]_vars

ThreadSymmetry == Permutations(Threads)
=============================================================================
