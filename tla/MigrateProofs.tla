--------------------------- MODULE MigrateProofs ---------------------------
(***************************************************************************)
(* Nothing the list vouched for is overwritten, what is reported as stored *)
(* is there, and there is one complete report, for any names, any list of  *)
(* candidates and any number of changes by other clients.                  *)
(***************************************************************************)
EXTENDS Migrate, FiniteSetTheorems, TLAPS

USE MigrateAssumption

Before == {"start", "unlock", "confirm", "list"}
Fates == {"new", "sent", "ok", "err"} \cup Settled
Open == {i \in DOMAIN cand : fate[i] \in {"sent", "ok", "err"}}

Types ==
    /\ how \in {"migrate", "import"}
    /\ cand \in Candidates
    /\ wallet \in [Names -> {Empty, Foreign} \cup Nat]
    /\ stage \in Before \cup {"listed", "sets", "over"}
    /\ present \subseteq Names /\ late \subseteq Names
    /\ fate \in [DOMAIN cand -> Fates]
    /\ inAgent \subseteq DOMAIN cand
    /\ pending \in Int /\ reports \in Nat

\* While the agent has sets, or will be sent some, whatever is not the
\* flow's own was listed or came late; and it has sets only of candidates
\* that were not listed and that nobody was told are stored.
Vouched ==
    /\ stage = "listed" \/ inAgent # {} =>
           \A n \in Names : wallet[n] = Foreign => n \in present \cup late
    /\ \A i \in inAgent : /\ stage \in {"sets", "over"}
                          /\ cand[i] \notin present
                          /\ fate[i] \in {"sent", "err", "failed"}

\* A candidate answered with a success is in the wallet.
Kept ==
    \A i \in DOMAIN cand :
        (/\ fate[i] \in {"ok", "stored"}
         /\ cand[i] \notin late
         /\ \A j \in DOMAIN cand : cand[j] = cand[i] => j = i)
            => wallet[cand[i]] = i

\* The countdown: everything before the loop, what is open in it, and at the
\* end nothing that was sent.
Counted ==
    /\ stage \in Before \cup {"listed"} =>
           /\ pending = Len(cand)
           /\ \A i \in DOMAIN cand : fate[i] = "new"
    /\ stage = "sets" =>
           /\ pending = Cardinality(Open)
           /\ \A i \in DOMAIN cand : fate[i] # "new"
    /\ stage = "over" =>
           \/ \A i \in DOMAIN cand : fate[i] = "new"
           \/ \A i \in DOMAIN cand : fate[i] \in Settled
    /\ stage # "over" => reports = 0
    /\ reports <= 1

IInv == Types /\ Vouched /\ Kept /\ Counted

-----------------------------------------------------------------------------
\* The candidates are a finite list of names.
LEMMA CandidateList ==
    ASSUME NEW c \in Candidates
    PROVE  /\ IsFiniteSet(DOMAIN c) /\ Cardinality(DOMAIN c) = Len(c)
           /\ Len(c) \in Nat
           /\ \A i \in DOMAIN c : i \in Nat /\ c[i] \in Names
<1>1. PICK k \in 0..MaxCandidates : c \in [1..k -> Names]
  BY DEF Candidates
<1>2. k \in Nat /\ DOMAIN c = 1..k
  BY <1>1
<1>3. Len(c) = k
  BY <1>1, <1>2
<1>4. IsFiniteSet(1..k) /\ Cardinality(1..k) = k
  BY <1>2, FS_Interval
<1> QED BY <1>1, <1>2, <1>3, <1>4

\* Settling one of the open candidates leaves one less.
LEMMA OpenShrinks ==
    ASSUME Types, NEW i \in Open, fate' = [fate EXCEPT ![i] = Outcome(i)],
           UNCHANGED cand
    PROVE  /\ Cardinality(Open') = Cardinality(Open) - 1
           /\ Cardinality(Open) \in Nat
           /\ Cardinality(Open') = 0 =>
                  \A j \in DOMAIN cand : fate'[j] \notin {"sent", "ok", "err"}
<1>1. Open' = Open \ {i}
  BY DEF Open, Types, Outcome
<1>2. IsFiniteSet(Open)
  BY CandidateList, FS_Subset DEF Open, Types
<1>3. IsFiniteSet(Open') /\ Cardinality(Open') = Cardinality(Open) - 1
  BY <1>1, <1>2, FS_RemoveElement
<1>4. Cardinality(Open') = 0 => Open' = {}
  BY <1>3, FS_EmptySet
<1> QED BY <1>2, <1>3, <1>4, FS_CardinalityType DEF Open

LEMMA InitInv == Init => IInv
<1> SUFFICES ASSUME Init PROVE IInv
  OBVIOUS
<1>1. Types
  BY CandidateList DEF Init, Types, Fates, Before
<1>2. Vouched /\ Kept
  BY DEF Init, Vouched, Kept
<1>3. Counted
  BY DEF Init, Counted, Before
<1> QED BY <1>1, <1>2, <1>3 DEF IInv

\* Steps that leave wallet, sets and outcomes alone, before the loop.
LEMMA EarlyStep ==
    ASSUME IInv, StartEmpty \/ Start \/ Proceed \/ GiveUp PROVE IInv'
<1> USE DEF IInv, Before
<1>1. Types'
  BY DEF Types, StartEmpty, Start, Proceed, GiveUp, Report, Goto, input
<1>2. stage \in Before /\ UNCHANGED <<cand, wallet, present, fate, inAgent,
                                     pending, late>>
  BY DEF StartEmpty, Start, Proceed, GiveUp, input
<1>3. stage' \in Before \cup {"over"} /\ inAgent = {}
  BY <1>2 DEF StartEmpty, Start, Proceed, GiveUp, Goto, Vouched
<1>4. Vouched' /\ Kept'
  BY <1>2, <1>3 DEF Vouched, Kept
<1>5. reports = 0 /\ (reports' = 0 \/ (reports' = 1 /\ stage' = "over"))
  BY <1>2 DEF StartEmpty, Start, Proceed, GiveUp, Goto, Report, Counted
<1>6. Counted'
  BY <1>2, <1>3, <1>5 DEF Counted
<1> QED BY <1>1, <1>4, <1>6

LEMMA ListStep == ASSUME IInv, List \/ ListFails PROVE IInv'
<1> USE DEF IInv, Before, Goto, input, List, ListFails
<1>1. Types'
  BY DEF Types
<1>2. /\ stage = "list" /\ stage' = "listed" /\ inAgent = {}
      /\ UNCHANGED <<cand, wallet, fate, inAgent, pending, reports>>
  BY DEF Vouched
<1>3. \A n \in Names : wallet[n] = Foreign => n \in present' \cup late'
  OBVIOUS
<1>4. Vouched'
  BY <1>2, <1>3 DEF Vouched
<1>5. Kept' /\ Counted'
  BY <1>2 DEF Kept, Counted
<1> QED BY <1>1, <1>4, <1>5

\* The loop: what is not skipped is open, and if nothing is, all is settled.
LEMMA StoreStep == ASSUME IInv, Store PROVE IInv'
<1> USE DEF IInv, Goto, input, Report
<1>1. /\ stage = "listed" /\ pending = Len(cand) /\ reports = 0
      /\ Skips \subseteq DOMAIN cand
      /\ fate' = [i \in DOMAIN cand |-> IF i \in Skips THEN "skipped" ELSE "sent"]
      /\ inAgent' = DOMAIN cand \ Skips
      /\ pending' = pending - Cardinality(Skips)
      /\ UNCHANGED <<how, cand, wallet, present, late>>
  BY DEF Store, Counted, Skips, Before
<1>2. /\ IsFiniteSet(DOMAIN cand) /\ Cardinality(DOMAIN cand) = Len(cand)
      /\ Len(cand) \in Nat
  BY CandidateList DEF Types
<1>3. /\ IsFiniteSet(Skips) /\ Cardinality(Skips) \in Nat
      /\ Cardinality(DOMAIN cand) = Cardinality(Skips) => Skips = DOMAIN cand
  BY <1>1, <1>2, FS_Subset, FS_CardinalityType
<1>4. /\ Open' = DOMAIN cand \ Skips
      /\ Cardinality(DOMAIN cand \ Skips) = Len(cand) - Cardinality(Skips)
  <2>1. Open' = DOMAIN cand \ Skips
    BY <1>1 DEF Open
  <2>2. DOMAIN cand \cap Skips = Skips
    BY <1>1
  <2> QED BY <2>1, <2>2, <1>2, FS_Difference
<1>5. \/ pending' = 0 /\ stage' = "over" /\ reports' = 1
      \/ pending' # 0 /\ stage' = "sets" /\ reports' = 0
  BY <1>1 DEF Store
<1>6. Types'
  BY <1>1, <1>2, <1>3, <1>5 DEF Types, Fates, Settled
<1>7. Vouched'
  BY <1>1, <1>5 DEF Vouched, Skips
<1>8. Kept'
  BY <1>1 DEF Kept
<1>9. Counted'
  <2>1. CASE pending' = 0
    BY <2>1, <1>1, <1>2, <1>3, <1>5 DEF Counted, Settled, Before
  <2>2. CASE pending' # 0
    BY <2>2, <1>1, <1>2, <1>3, <1>4, <1>5 DEF Counted, Before
  <2> QED BY <2>1, <2>2
<1> QED BY <1>6, <1>7, <1>8, <1>9

\* The agent runs a set, or refuses it.
LEMMA SetStep ==
    ASSUME IInv, NEW i \in DOMAIN cand, SetRuns(i) \/ SetRefused(i) PROVE IInv'
<1> USE DEF IInv, input
<1>1. /\ i \in inAgent /\ inAgent' = inAgent \ {i}
      /\ UNCHANGED <<how, cand, stage, present, pending, reports, late>>
      /\ stage \in {"sets", "over"} /\ fate[i] \in {"sent", "err", "failed"}
  BY DEF SetRuns, SetRefused, Vouched
<1>2. wallet' = wallet \/ (SetRuns(i) /\ wallet' = [wallet EXCEPT ![cand[i]] = i])
  BY DEF SetRuns, SetRefused
<1>3. \/ fate' = fate
      \/ /\ fate[i] = "sent"
         /\ \E a \in {"ok", "err"} : fate' = [fate EXCEPT ![i] = a]
  BY DEF SetRuns, SetRefused, Types
<1>4. i \in Nat /\ cand[i] \in Names
  BY CandidateList DEF Types
<1>5. Types'
  BY <1>1, <1>2, <1>3, <1>4 DEF Types, Fates
<1>6. Vouched'
  BY <1>1, <1>2, <1>3, <1>4 DEF Vouched, Types
<1>7. Kept'
  <2> SUFFICES ASSUME NEW j \in DOMAIN cand, fate'[j] \in {"ok", "stored"},
                      cand[j] \notin late,
                      \A l \in DOMAIN cand : cand[l] = cand[j] => l = j
               PROVE  wallet'[cand[j]] = j
    BY <1>1 DEF Kept
  <2>1. CASE j = i
    <3>1. fate'[i] = "ok" /\ SetRuns(i)
      BY <1>1, <1>3, <2>1 DEF SetRefused, Types
    <3> QED BY <3>1, <2>1, <1>4 DEF SetRuns, Types
  <2>2. CASE j # i
    <3>1. fate'[j] = fate[j] /\ cand[j] # cand[i]
      BY <1>3, <2>2 DEF Types
    <3>2. wallet'[cand[j]] = wallet[cand[j]]
      BY <1>2, <3>1, <1>4, CandidateList DEF Types
    <3> QED BY <3>1, <3>2 DEF Kept
  <2> QED BY <2>1, <2>2
<1>8. Open' = Open
  BY <1>1, <1>3 DEF Open, Types
<1>9. Counted'
  BY <1>1, <1>3, <1>8 DEF Counted, Types, Before, Settled
<1> QED BY <1>5, <1>6, <1>7, <1>9

LEMMA LostStep == ASSUME IInv, ConnectionLost PROVE IInv'
<1> USE DEF IInv, ConnectionLost, input
<1>1. /\ UNCHANGED <<how, cand, wallet, stage, present, inAgent, pending,
                     reports, late>>
      /\ fate' \in [DOMAIN cand -> Fates]
      /\ \A i \in DOMAIN cand : \/ fate'[i] = fate[i]
                                \/ fate[i] = "sent" /\ fate'[i] = "err"
  BY DEF Types, Fates
<1>2. Types' /\ Vouched' /\ Kept'
  BY <1>1 DEF Types, Vouched, Kept
<1>3. Open' = Open
  BY <1>1 DEF Open
<1>4. Counted'
  BY <1>1, <1>3 DEF Counted, Before, Settled
<1> QED BY <1>2, <1>4

\* The callback counts one down, and the last one reports.
LEMMA AnswerStep ==
    ASSUME IInv, NEW i \in DOMAIN cand, SetAnswered(i) PROVE IInv'
<1> USE DEF IInv, input, Goto, Report
<1>1. /\ stage = "sets" /\ reports = 0 /\ pending = Cardinality(Open)
      /\ i \in Open /\ fate' = [fate EXCEPT ![i] = Outcome(i)]
      /\ pending' = pending - 1
      /\ UNCHANGED <<how, cand, wallet, present, inAgent, late>>
  BY DEF SetAnswered, Counted, Open
<1>2. \/ pending' = 0 /\ stage' = "over" /\ reports' = 1
      \/ pending' # 0 /\ stage' = "sets" /\ reports' = 0
  BY <1>1 DEF SetAnswered
<1>3. /\ Outcome(i) \in {"stored", "failed"}
      /\ Outcome(i) = "stored" => fate[i] = "ok"
  BY DEF Outcome
<1>4. Types'
  BY <1>1, <1>2, <1>3 DEF Types, Fates, Settled
<1>5. Vouched'
  BY <1>1, <1>2, <1>3 DEF Vouched, Types, SetAnswered
<1>6. Kept'
  BY <1>1, <1>3 DEF Kept, Types
<1>7. /\ Cardinality(Open') = Cardinality(Open) - 1
      /\ pending' = 0 => \A j \in DOMAIN cand : fate'[j] \notin {"sent", "ok", "err"}
  BY <1>1, OpenShrinks
<1>8. \A j \in DOMAIN cand : fate'[j] # "new"
  BY <1>1, <1>3 DEF Counted, Types
<1>9. pending' = 0 => \A j \in DOMAIN cand : fate'[j] \in Settled
  BY <1>1, <1>4, <1>7, <1>8 DEF Types, Fates
<1>10. Counted'
  BY <1>1, <1>2, <1>7, <1>8, <1>9 DEF Counted, Before
<1> QED BY <1>4, <1>5, <1>6, <1>10

LEMMA OtherStep == ASSUME IInv, NEW n \in Names, OtherClient(n) PROVE IInv'
<1> USE DEF IInv, input
<1>1. PICK x \in {Empty, Foreign} : wallet' = [wallet EXCEPT ![n] = x]
  BY DEF OtherClient
<1>2. /\ UNCHANGED <<how, cand, stage, present, fate, inAgent, pending, reports>>
      /\ late' = IF stage \in {"listed", "sets", "over"} THEN late \cup {n}
                 ELSE late
  BY DEF OtherClient
<1>3. Types'
  BY <1>1, <1>2 DEF Types
<1>4. Vouched'
  BY <1>1, <1>2 DEF Vouched, Types
<1>5. Kept'
  <2> SUFFICES ASSUME NEW j \in DOMAIN cand, fate[j] \in {"ok", "stored"},
                      cand[j] \notin late',
                      \A l \in DOMAIN cand : cand[l] = cand[j] => l = j
               PROVE  wallet'[cand[j]] = j
    BY <1>2 DEF Kept
  <2>1. stage \in {"sets", "over"}
    BY DEF Counted, Types
  <2>2. cand[j] # n /\ cand[j] \in Names /\ cand[j] \notin late
    BY <1>2, <2>1, CandidateList DEF Types
  <2> QED BY <1>1, <2>2 DEF Kept, Types
<1>6. Open' = Open
  BY <1>2 DEF Open
<1>7. Counted'
  BY <1>2, <1>6 DEF Counted
<1> QED BY <1>3, <1>4, <1>5, <1>7

LEMMA InvStep == IInv /\ [Next]_vars => IInv'
<1>1. ASSUME IInv, UNCHANGED vars PROVE IInv'
  BY <1>1 DEF vars, IInv, Types, Vouched, Kept, Counted, Open
<1> QED
  BY <1>1, EarlyStep, ListStep, StoreStep, SetStep, LostStep, AnswerStep,
     OtherStep
  DEF Next, Flow, SetSteps

LEMMA Invariant == Spec => []IInv
  BY InitInv, InvStep, PTL DEF Spec

\* init.lua:303: what is reported as stored is in the wallet, with the value
\* of the candidate, for any list of candidates.
THEOREM StoredTrue == Spec => []StoredIsThere
<1>1. IInv => StoredIsThere
  BY DEF IInv, Kept, StoredIsThere
<1> QED BY <1>1, Invariant, PTL

\* init.lua:332-355, import.lua:124-162: the countdown ends exactly once, and
\* only when every candidate has its outcome.
THEOREM OneReport == Spec => []ReportsOnce
<1>1. IInv => ReportsOnce
  BY DEF IInv, Types, Counted, Open, ReportsOnce, Settled
<1> QED BY <1>1, Invariant, PTL

\* init.lua:304: an entry that another client stored before the list, and
\* that the list told of, is never overwritten.
THEOREM NotClobbered == Spec => NeverClobbered
<1>1. ASSUME IInv, [Next]_vars, NEW n \in Names,
             wallet[n] = Foreign, wallet'[n] \in Nat
      PROVE  n \in late
  <2>1. wallet' # wallet
    BY <1>1
  <2>2. PICK i \in DOMAIN cand : SetRuns(i)
    BY <1>1, <2>1
    DEF Next, Flow, SetSteps, StartEmpty, Start, Proceed, GiveUp, List,
        ListFails, Store, SetRefused, SetAnswered, ConnectionLost, OtherClient,
        IInv, Types, vars
  <2>3. cand[i] = n
    BY <1>1, <2>2 DEF SetRuns, IInv, Types
  <2> QED BY <1>1, <2>2, <2>3 DEF SetRuns, IInv, Vouched
<1>2. IInv /\ [Next]_vars =>
        [\A n \in Names :
            wallet[n] = Foreign /\ wallet'[n] \in Nat => n \in late]_vars
  BY <1>1
<1> QED BY <1>2, Invariant, PTL DEF Spec, NeverClobbered
=============================================================================
